---------------------------- MODULE Spec2Model ----------------------------
(***************************************************************************)
(* agentstat: discovery of running coding-agent processes and inference of *)
(* each session's status from the agent's on-disk / network artifacts.     *)
(*                                                                         *)
(* One module, several specifications, one per component:                  *)
(*   SpecClaude    readClaudeStatus / scanClaudeJSONL over a transcript    *)
(*   SpecClaudeGrowth  readClaudeStatus before and after each appended line *)
(*   SpecCodex     probeCodexPID / readRolloutStatus over a rollout file   *)
(*   SpecAmp       ampStatusFromThread over a thread's messages            *)
(*   SpecGemini    DiscoverGemini over a process table and session files   *)
(*   SpecGeminiStatus  geminiStatusFromSession over a session's messages   *)
(*   SpecProbe     ConcurrentProbe, one goroutine per item, interleaved    *)
(*   SpecPlatform  ListOpenFiles / ReadProcessCwd / ReadProcessPPID while  *)
(*                 processes start and exit                                *)
(*   SpecFind      FindPIDsByName / FindPIDsByArgs over a process table    *)
(*   SpecDiscover  each Discover* function over its environment            *)
(*   Spec          main: parseAgents, then the discoverers it calls        *)
(***************************************************************************)
EXTENDS Naturals, Integers, Sequences, FiniteSets, TLC

VARIABLES
    transcript,   \* Claude session JSONL: the lines written so far
    tailCut,      \* index of the line holding offset size-tailSize (0: size <= tailSize)
    scanned,      \* the lines the reader handed to scanClaudeJSONL held
    claudeOut,    \* what readClaudeStatus returned (status, slug, cwd)
    claudeNewline, \* the transcript file ends with a newline
    claudeIoOk,   \* the latest readClaudeStatus could open and read the file
    claudeFirst,  \* what the first readClaudeStatus that could returned
    claudeReads,  \* the number of readClaudeStatus calls on the file
    cgTranscript, \* a growing Claude transcript within tailSize: its lines
    cgBefore,     \* the status read before the latest line was appended ("none": not read)
    cgAfter,      \* the status read since the latest line was appended ("none": not read)
    rollout,      \* Codex rollout JSONL: the lines written so far
    codexIn,      \* what probeCodexPID found in its environment
    codexOut,     \* the session probeCodexPID returned (NilSession: nil)
    ampMessages,  \* Amp thread file: its message sequence
    ampOut,       \* what ampStatusFromThread returned ("none": not called)
    gProcs,       \* process table as DiscoverGemini sees it: pid -> process
    gSessions,    \* parsed ~/.gemini/tmp/*/chats/session-*.json files
    gParents,     \* what filterGeminiParents returned
    gResults,     \* what DiscoverGemini returned
    gDone,        \* DiscoverGemini has returned
    cpMain,       \* ConcurrentProbe: where the calling goroutine is
    cpN,          \* ConcurrentProbe: len(items)
    cpNext,       \* ConcurrentProbe: the item the range loop is at
    cpTask,       \* per item: where its goroutine is
    cpSession,    \* per item: what probe(it) returned (NilSession: nil)
    cpTmp,        \* per item: the slice value append() read
    cpMu,         \* mu: the item holding the mutex, 0 when free
    cpWg,         \* wg: the WaitGroup counter
    cpResults,    \* results, the shared slice
    cpReturned,   \* what ConcurrentProbe returned
    platProcs,    \* /proc as the platform layer sees it: pid -> process
    platCall,     \* the platform call in flight or just returned
    findProcs,    \* the process table: pid -> argv (<<>>: no such process)
    findCall,     \* the FindPIDsBy* call that ran, with what it returned
    gsMessages,   \* Gemini session file: the types of its messages
    gsOut,        \* what geminiStatusFromSession returned ("none": not called)
    dAgent,       \* the discoverer that ran ("none": none yet)
    dEnv,         \* the environment that discoverer ran in
    dReturned,    \* the session list that discoverer returned
    dPidMaps,     \* DiscoverClaude: pidMap before the loop and after each debug log
    mPc,          \* main: the statement it is at
    mSelected,    \* main: agents, the map parseAgents returned
    mInvoked,     \* main: the discoverers called so far
    mOut,         \* main: what each discoverer called returned
    mSessions     \* main: sessions, the output list

claudeVars == <<transcript, tailCut, scanned, claudeOut, claudeNewline, claudeIoOk,
                claudeFirst, claudeReads>>
codexVars == <<rollout, codexIn, codexOut>>

ampVars == <<ampMessages, ampOut>>
geminiVars == <<gProcs, gSessions, gParents, gResults, gDone>>
probeVars == <<cpMain, cpN, cpNext, cpTask, cpSession, cpTmp, cpMu, cpWg,
               cpResults, cpReturned>>

platformVars == <<platProcs, platCall>>
findVars == <<findProcs, findCall>>
claudeGrowthVars == <<cgTranscript, cgBefore, cgAfter>>
geminiStatusVars == <<gsMessages, gsOut>>
discoverVars == <<dAgent, dEnv, dReturned, dPidMaps>>
mainVars == <<mPc, mSelected, mInvoked, mOut, mSessions>>

notClaude == <<findVars, claudeGrowthVars, geminiStatusVars, mainVars, platformVars, codexVars, ampVars, geminiVars, probeVars, discoverVars>>
notCodex == <<findVars, claudeGrowthVars, geminiStatusVars, mainVars, platformVars, claudeVars, ampVars, geminiVars, probeVars, discoverVars>>
notAmp == <<findVars, claudeGrowthVars, geminiStatusVars, mainVars, platformVars, claudeVars, codexVars, geminiVars, probeVars, discoverVars>>
notGemini == <<findVars, claudeGrowthVars, geminiStatusVars, mainVars, platformVars, claudeVars, codexVars, ampVars, probeVars, discoverVars>>
notProbe == <<findVars, claudeGrowthVars, geminiStatusVars, mainVars, platformVars, claudeVars, codexVars, ampVars, geminiVars, discoverVars>>
notDiscover == <<findVars, claudeGrowthVars, geminiStatusVars, platformVars, claudeVars, codexVars, ampVars, geminiVars, probeVars, mainVars>>
notPlatform == <<findVars, claudeGrowthVars, geminiStatusVars, claudeVars, codexVars, ampVars, geminiVars, probeVars,
                 discoverVars, mainVars>>
notMain == <<findVars, claudeGrowthVars, geminiStatusVars, platformVars, claudeVars, codexVars, ampVars, geminiVars, probeVars, discoverVars>>

notFind == <<geminiStatusVars, claudeGrowthVars, platformVars, claudeVars, codexVars, ampVars, geminiVars, probeVars,
             discoverVars, mainVars>>

notGeminiStatus == <<findVars, claudeGrowthVars, platformVars, claudeVars, codexVars, ampVars, geminiVars,
                     probeVars, discoverVars, mainVars>>

notClaudeGrowth == <<findVars, geminiStatusVars, platformVars, claudeVars, codexVars,
                     ampVars, geminiVars, probeVars, discoverVars, mainVars>>

vars == <<geminiStatusVars, claudeGrowthVars, claudeVars, codexVars, ampVars, geminiVars, probeVars, platformVars, findVars,
          discoverVars, mainVars>>

(***************************************************************************)
(* model.Status* constants                                                 *)
(***************************************************************************)
StatusBusy == "busy"
StatusIdle == "idle"
StatusRetry == "retry"
StatusUnknown == "unknown"

Statuses == {StatusBusy, StatusIdle, StatusRetry, StatusUnknown}

(***************************************************************************)
(* Bounds                                                                  *)
(***************************************************************************)
MaxLines == 3      \* lines in a Claude transcript
MaxRollout == 2    \* lines in a Codex rollout file
MaxOpen == 2       \* open files of a Codex process
MaxMessages == 3   \* messages in an Amp thread
MaxGeminiPid == 2  \* process ids a Gemini candidate may have: 1..MaxGeminiPid
MaxGeminiSessions == 2  \* Gemini session files
MaxItems == 3      \* items handed to ConcurrentProbe
MaxFds == 2        \* open descriptors of a process
MaxReads == 3      \* readClaudeStatus calls on one transcript
MaxArgs == 2       \* arguments of a launch command
MaxGrowth == 3     \* lines of a growing Claude transcript
MaxGeminiMessages == 3  \* messages in a Gemini session file
MaxWords == 2      \* space-separated words in one argument

(***************************************************************************)
(* model.AgentSession; NilSession stands for a nil *AgentSession.          *)
(***************************************************************************)
AgentSession(a, st, id, t, d, p) ==
    [agent |-> a, status |-> st, sessionID |-> id, title |-> t,
     directory |-> d, pid |-> p]

NilSession == AgentSession("nil", "", "", "", "", 0)

\* Process ids the platform layer reports.
AgentPids == {1, 2}

\* platform.ReadProcessCwd: the link target, or "-" when readlink fails.
LiveCwds == {"-", "/live"}

(***************************************************************************)
(* Claude transcript lines.  kind says what the scan loop does with the    *)
(* line: "blank" (TrimSpace is empty), "bad" (json.Unmarshal fails), or    *)
(* "json" (decoded into claudeJSONLEntry: type, subtype, slug, cwd).       *)
(***************************************************************************)
ClaudeLine(k, t, st, sl, c) ==
    [kind |-> k, type |-> t, subtype |-> st, slug |-> sl, cwd |-> c]

ClaudeBlank == ClaudeLine("blank", "", "", "", "")
ClaudeBad == ClaudeLine("bad", "", "", "", "")

ClaudeLines ==
    {ClaudeBlank, ClaudeBad}
    \cup { ClaudeLine("json", t, st, "", "") :
             t \in {"assistant", "system", "user"}, st \in {"", "turn_duration"} }
    \cup { ClaudeLine("json", "user", "", "fix-bug", "/w"),
           ClaudeLine("json", "assistant", "", "add-test", ""),
           ClaudeLine("json", "system", "turn_duration", "", "/v") }

IsTurnDuration(e) ==
    e.kind = "json" /\ e.type = "system" /\ e.subtype = "turn_duration"

IsAssistant(e) == e.kind = "json" /\ e.type = "assistant"

(***************************************************************************)
(* scanClaudeJSONL: the loop state after the first n lines.  lineNum is    *)
(* n, positions are 0-based, -1 means "never seen".                        *)
(***************************************************************************)
ScanInit == [lastTurnDuration |-> -1, lastAssistant |-> -1, slug |-> "", cwd |-> ""]

\* the fields of the latest entry, empty or not
ScanStepLatestEntry(st, e, lineNum) ==
    IF e.kind # "json" THEN st
    ELSE [ lastTurnDuration |->
               IF e.type = "system" /\ e.subtype = "turn_duration"
               THEN lineNum ELSE st.lastTurnDuration,
           lastAssistant |->
               IF e.type = "assistant" THEN lineNum ELSE st.lastAssistant,
           slug |-> e.slug,
           cwd |-> e.cwd ]

ScanStep(st, e, lineNum) ==
    IF e.kind # "json" THEN st
    ELSE [ lastTurnDuration |->
               IF e.type = "system" /\ e.subtype = "turn_duration"
               THEN lineNum ELSE st.lastTurnDuration,
           lastAssistant |->
               IF e.type = "assistant" THEN lineNum ELSE st.lastAssistant,
           slug |-> IF e.slug # "" THEN e.slug ELSE st.slug,
           cwd |-> IF e.cwd # "" THEN e.cwd ELSE st.cwd ]

RECURSIVE ScanLoop(_, _)
ScanLoop(lines, n) ==
    IF n = 0 THEN ScanInit
    ELSE ScanStep(ScanLoop(lines, n - 1), lines[n], n - 1)

ClaudeStatusSwapped(lastTurnDuration, lastAssistant) ==
    IF lastTurnDuration > lastAssistant THEN StatusBusy
    ELSE IF lastAssistant > lastTurnDuration THEN StatusIdle
    ELSE StatusIdle

ClaudeStatusOf(lastTurnDuration, lastAssistant) ==
    IF lastTurnDuration > lastAssistant THEN StatusIdle
    ELSE IF lastAssistant > lastTurnDuration THEN StatusBusy
    ELSE StatusIdle

\* the status of the last line alone
scanClaudeJSONLLastLine(lines) ==
    LET st == ScanLoop(lines, Len(lines))
    IN  [ status |-> IF lines # <<>> /\ IsAssistant(lines[Len(lines)])
                     THEN StatusBusy ELSE StatusIdle,
          slug |-> st.slug,
          cwd |-> st.cwd ]

scanClaudeJSONL(lines) ==
    LET st == ScanLoop(lines, Len(lines))
    IN  [ status |-> ClaudeStatusOf(st.lastTurnDuration, st.lastAssistant),
          slug |-> st.slug,
          cwd |-> st.cwd ]

ClaudeUnknown == [status |-> StatusUnknown, slug |-> "", cwd |-> ""]
NotRead == [status |-> "none", slug |-> "", cwd |-> ""]

(***************************************************************************)
(* readClaudeStatus.  ioOk: Open, Stat and Seek succeed.  cut = 0: the     *)
(* file is not larger than tailSize and is scanned whole.  cut > 0: the    *)
(* seek lands in line cut; ReadBytes('\n') discards the rest of that line  *)
(* (an error when the file ends before a newline), the lines after it are  *)
(* scanned.                                                                *)
(***************************************************************************)
ClaudeWindowFromLastOffset(lines, cut) ==
    SubSeq(lines, cut + 1 + Len(scanned), Len(lines))

ClaudeWindow(lines, cut) == SubSeq(lines, cut + 1, Len(lines))

readClaudeStatus(lines, cut, ioOk, finalNewline) ==
    IF ~ioOk THEN ClaudeUnknown
    ELSE IF cut > 0 /\ cut = Len(lines) /\ ~finalNewline THEN ClaudeUnknown
    ELSE scanClaudeJSONL(ClaudeWindow(lines, cut))

\* Claude Code appends a line to the transcript; the tail window moves on.
AppendClaudeLine ==
    /\ claudeOut = NotRead
    /\ Len(transcript) < MaxLines
    /\ \E e \in ClaudeLines :
         /\ transcript' = Append(transcript, e)
         /\ \E c \in tailCut .. (Len(transcript) + 1) : tailCut' = c
    /\ UNCHANGED <<scanned, claudeOut, claudeNewline, claudeIoOk, claudeFirst,
                   claudeReads>>
    /\ UNCHANGED notClaude

ReadClaudeStatus ==
    /\ claudeOut = NotRead
    /\ \E ioOk \in BOOLEAN, finalNewline \in BOOLEAN :
         /\ claudeOut' = readClaudeStatus(transcript, tailCut, ioOk, finalNewline)
         /\ scanned' =
              IF ioOk /\ ~(tailCut > 0 /\ tailCut = Len(transcript) /\ ~finalNewline)
              THEN ClaudeWindow(transcript, tailCut)
              ELSE <<>>
         /\ claudeNewline' = finalNewline
         /\ claudeIoOk' = ioOk
         /\ claudeFirst' =
              IF ioOk THEN readClaudeStatus(transcript, tailCut, ioOk, finalNewline)
              ELSE NotRead
         /\ claudeReads' = 1
    /\ UNCHANGED <<transcript, tailCut>>
    /\ UNCHANGED notClaude

\* readClaudeStatus is called again on the file as it is: each call opens
\* the file anew.
RereadClaudeStatus ==
    /\ claudeOut # NotRead
    /\ claudeReads < MaxReads
    /\ claudeReads' = claudeReads + 1
    /\ \E ioOk \in BOOLEAN :
         /\ claudeOut' = readClaudeStatus(transcript, tailCut, ioOk, claudeNewline)
         /\ scanned' =
              IF ioOk /\ ~(tailCut > 0 /\ tailCut = Len(transcript) /\ ~claudeNewline)
              THEN ClaudeWindow(transcript, tailCut)
              ELSE <<>>
         /\ claudeIoOk' = ioOk
         /\ claudeFirst' =
              IF ioOk /\ claudeFirst = NotRead
              THEN readClaudeStatus(transcript, tailCut, ioOk, claudeNewline)
              ELSE claudeFirst
    /\ UNCHANGED <<transcript, tailCut, claudeNewline>>
    /\ UNCHANGED notClaude


(***************************************************************************)
(* Codex.  A rollout line is "blank", "bad" (json.Unmarshal into           *)
(* rolloutPayload fails), "complete" (payload.type = "task_complete") or   *)
(* "other" (decodes, any other payload.type).  long: the line does not fit *)
(* the scanner's 1 MiB buffer, so Scan() stops there and returns false.    *)
(***************************************************************************)
RolloutLine(k, l) == [kind |-> k, long |-> l]

RolloutLines ==
    { RolloutLine(k, FALSE) : k \in {"blank", "bad", "complete", "other"} }
    \cup { RolloutLine(k, TRUE) : k \in {"complete", "other"} }

\* The lines scanner.Scan() yields: those before the first over-long line.
RECURSIVE ScannerTokens(_)
ScannerTokens(lines) ==
    IF lines = <<>> \/ Head(lines).long THEN <<>>
    ELSE <<Head(lines)>> \o ScannerTokens(Tail(lines))

\* lastLine of the loop: the last yielded line that is not blank ("": none).
RECURSIVE LastNonBlank(_)
LastNonBlank(lines) ==
    IF lines = <<>> THEN "none"
    ELSE IF lines[Len(lines)].kind # "blank" THEN lines[Len(lines)].kind
    ELSE LastNonBlank(SubSeq(lines, 1, Len(lines) - 1))

RolloutStatusOfAlwaysBusy(lastKind) ==
    IF lastKind = "none" THEN StatusUnknown
    ELSE IF lastKind = "bad" THEN StatusUnknown
    ELSE StatusBusy

RolloutStatusOf(lastKind) ==
    IF lastKind = "none" THEN StatusUnknown
    ELSE IF lastKind = "bad" THEN StatusUnknown
    ELSE IF lastKind = "complete" THEN StatusIdle
    ELSE StatusBusy

readRolloutStatus(lines, openOk) ==
    IF ~openOk THEN StatusUnknown
    ELSE RolloutStatusOf(LastNonBlank(ScannerTokens(lines)))

\* Open files of the process: a path either matches the rollout pattern
\* (and then ends in a thread UUID) or does not.
OpenFile(m, id) == [match |-> m, thread |-> id]

OpenFiles ==
    {OpenFile(FALSE, ""), OpenFile(TRUE, "uuid-1"), OpenFile(TRUE, "uuid-2")}

RECURSIVE SeqsUpTo(_, _)
SeqsUpTo(S, n) ==
    IF n = 0 THEN {<<>>}
    ELSE LET shorter == SeqsUpTo(S, n - 1)
         IN  shorter \cup { Append(q, x) : q \in shorter, x \in S }

RECURSIVE findRolloutFile(_)
findRolloutFile(files) ==
    IF files = <<>> THEN [found |-> FALSE, thread |-> ""]
    ELSE IF Head(files).match THEN [found |-> TRUE, thread |-> Head(files).thread]
    ELSE findRolloutFile(Tail(files))

\* lookupCodexThread: the threads row of the id, or nil (no row, no
\* database, a failed query).
NoRow == [found |-> FALSE, title |-> "", cwd |-> ""]

ThreadRows ==
    {NoRow} \cup { [found |-> TRUE, title |-> t, cwd |-> c] :
                     t \in {"", "Fix login"}, c \in {"", "/launch"} }

CodexDirectoryDbFirst(row, liveCwd) == IF row.found THEN row.cwd ELSE liveCwd

CodexDirectory(row, liveCwd) ==
    IF row.found /\ row.cwd # "" THEN row.cwd ELSE liveCwd

CodexTitle(row) == IF row.found THEN row.title ELSE "-"

probeCodexPIDWithoutRollout(pid, files, lines, openOk, liveCwd, row) ==
    AgentSession("codex", readRolloutStatus(lines, openOk), findRolloutFile(files).thread,
                 CodexTitle(row), CodexDirectory(row, liveCwd), pid)

probeCodexPID(pid, files, lines, openOk, liveCwd, row) ==
    LET r == findRolloutFile(files)
    IN  IF ~r.found THEN NilSession
        ELSE AgentSession("codex", readRolloutStatus(lines, openOk), r.thread,
                          CodexTitle(row), CodexDirectory(row, liveCwd), pid)

NoProbe ==
    [pid |-> 0, files |-> <<>>, openOk |-> FALSE, liveCwd |-> "", row |-> NoRow]

\* Codex appends a line to the rollout file.
AppendRolloutLine ==
    /\ codexIn = NoProbe
    /\ Len(rollout) < MaxRollout
    /\ \E l \in RolloutLines : rollout' = Append(rollout, l)
    /\ UNCHANGED <<codexIn, codexOut>>
    /\ UNCHANGED notCodex

ProbeCodexPID ==
    /\ codexIn = NoProbe
    /\ \E pid \in AgentPids, files \in SeqsUpTo(OpenFiles, MaxOpen),
          openOk \in BOOLEAN, liveCwd \in LiveCwds, row \in ThreadRows :
         /\ codexIn' = [pid |-> pid, files |-> files, openOk |-> openOk,
                        liveCwd |-> liveCwd, row |-> row]
         /\ codexOut' = probeCodexPID(pid, files, rollout, openOk, liveCwd, row)
    /\ UNCHANGED rollout
    /\ UNCHANGED notCodex

InitCodex ==
    /\ rollout = <<>>
    /\ codexIn = NoProbe
    /\ codexOut = NilSession

(***************************************************************************)
(* Amp.  A message has a role and a state (type, stopReason); absent JSON  *)
(* fields decode to "".                                                    *)
(***************************************************************************)
AmpMessage(r, t, sr) == [role |-> r, type |-> t, stopReason |-> sr]

AmpMessages ==
    { AmpMessage("assistant", t, sr) :
        t \in {"streaming", "complete", "cancelled", "error", ""},
        sr \in {"tool_use", "end_turn"} }
    \cup { AmpMessage("assistant", "complete", ""),
           AmpMessage("assistant", "", ""),
           AmpMessage("user", "", ""),
           AmpMessage("user", "streaming", "tool_use") }

ampStatusCompleteBusy(state) ==
    IF state.type = "streaming" THEN StatusBusy
    ELSE IF state.type = "complete" THEN StatusBusy
    ELSE StatusIdle

ampStatus(state) ==
    IF state.type = "streaming" THEN StatusBusy
    ELSE IF state.type = "complete"
         THEN IF state.stopReason = "tool_use" THEN StatusBusy ELSE StatusIdle
    ELSE IF state.type \in {"cancelled", "error"} THEN StatusIdle
    ELSE StatusIdle

\* The reverse walk from index i down to 1.
RECURSIVE ampWalk(_, _)
ampWalk(messages, i) ==
    IF i = 0 THEN StatusIdle
    ELSE IF messages[i].role # "assistant" THEN ampWalk(messages, i - 1)
    ELSE ampStatus(messages[i])

ampStatusFromThreadLastMessage(messages) ==
    IF messages = <<>> THEN StatusIdle ELSE ampStatus(messages[Len(messages)])

ampStatusFromThread(messages) == ampWalk(messages, Len(messages))

\* Amp appends a message to the thread file.
AppendAmpMessage ==
    /\ ampOut = "none"
    /\ Len(ampMessages) < MaxMessages
    /\ \E m \in AmpMessages : ampMessages' = Append(ampMessages, m)
    /\ UNCHANGED ampOut
    /\ UNCHANGED notAmp

AmpStatusFromThread ==
    /\ ampOut = "none"
    /\ ampOut' = ampStatusFromThread(ampMessages)
    /\ UNCHANGED ampMessages
    /\ UNCHANGED notAmp

InitAmp ==
    /\ ampMessages = <<>>
    /\ ampOut = "none"

(***************************************************************************)
(* Paths.  Directories are named by strings; PathComps gives a path's      *)
(* components, from which filepath.Base and strings.HasPrefix(p, r + "/")  *)
(* are computed.  "-" is ReadProcessCwd's failure sentinel.                *)
(***************************************************************************)
PathComps(p) ==
    CASE p = "/a" -> <<"a">>
      [] p = "/b" -> <<"b">>
      [] p = "/b/a" -> <<"b", "a">>
      [] OTHER -> <<>>

PathBase(p) ==
    LET c == PathComps(p) IN IF c = <<>> THEN p ELSE c[Len(c)]

\* strings.HasPrefix(p, r + "/") for directory paths p and r
HasDirPrefix(p, r) ==
    LET pc == PathComps(p)
        rc == PathComps(r)
    IN  /\ rc # <<>>
        /\ Len(rc) < Len(pc)
        /\ SubSeq(pc, 1, Len(rc)) = rc

GeminiCwds == {"-", "/a", "/b", "/b/a"}

\* A project directory ~/.gemini/tmp/{name}; root is the trimmed content of
\* its .project_root file ("" when the file is missing or empty).
GeminiProjects == { [name |-> "a", root |-> ""], [name |-> "3f9c", root |-> "/b"] }

GeminiMessageLists == { <<"user">>, <<"user", "gemini">> }

GeminiStartTimes == {1, 2}

GeminiSessionIds == <<"g1", "g2", "g3", "g4">>

GeminiSession(pr, t, id, ms) ==
    [project |-> pr, startTime |-> t, sessionID |-> id, messages |-> ms]

NoProcess == [running |-> FALSE, ppid |-> 0, cwd |-> "-"]

\* findGeminiPIDs: the candidates, in ascending order
RECURSIVE SortAsc(_)
SortAsc(S) ==
    IF S = {} THEN <<>>
    ELSE LET m == CHOOSE x \in S : \A y \in S : x <= y
         IN  <<m>> \o SortAsc(S \ {m})

SeqToSet(q) == { q[i] : i \in 1..Len(q) }

findGeminiPIDs(procs) == SortAsc({ p \in DOMAIN procs : procs[p].running })

\* platform.ReadProcessPPID / ReadProcessCwd of a candidate
ReadProcessPPID(procs, pid) == procs[pid].ppid
ReadProcessCwd(procs, pid) == procs[pid].cwd

IsGeminiChildAnyParent(procs, pids, pid) == ReadProcessPPID(procs, pid) # 0

IsGeminiChild(procs, pids, pid) == ReadProcessPPID(procs, pid) \in SeqToSet(pids)

filterGeminiParents(procs, pids) ==
    LET Keep(pid) == ~IsGeminiChild(procs, pids, pid)
    IN  SelectSeq(pids, Keep)

matchGeminiProject(cwd, project) ==
    \/ /\ project.root # ""
       /\ (cwd = project.root \/ HasDirPrefix(cwd, project.root))
    \/ project.name = PathBase(cwd)

\* matchAllGeminiSessionsByCwd: the indexes of the matching session files
matchAllGeminiSessionsByCwd(cwd, sessions) ==
    { i \in 1..Len(sessions) : matchGeminiProject(cwd, sessions[i].project) }

\* busy as soon as any message is the user's
geminiStatusAnyUser(messages) ==
    IF \E i \in 1..Len(messages) : messages[i] = "user" THEN StatusBusy
    ELSE StatusIdle

geminiStatusFromSession(messages) ==
    IF messages = <<>> THEN StatusIdle
    ELSE IF messages[Len(messages)] = "user" THEN StatusBusy
    ELSE StatusIdle

\* Every enumeration of the set S
RECURSIVE Perms(_)
Perms(S) ==
    IF S = {} THEN {<<>>}
    ELSE UNION { { <<x>> \o q : q \in Perms(S \ {x}) } : x \in S }

SortByStartTimeDescending(sessions, I) ==
    { q \in Perms(I) :
        \A j, k \in 1..Len(q) :
            j < k => sessions[q[j]].startTime >= sessions[q[k]].startTime }

\* sort.Slice by StartTime ascending: not stable, so every order that is
\* ascending in StartTime is a possible outcome.
SortByStartTime(sessions, I) ==
    { q \in Perms(I) :
        \A j, k \in 1..Len(q) :
            j < k => sessions[q[j]].startTime <= sessions[q[k]].startTime }

\* The pairing loop of one working-directory group.
PairGroup(cwd, pidsInCwd, sessions, matching) ==
    [ i \in 1..Len(pidsInCwd) |->
        IF i <= Len(matching)
        THEN LET sess == sessions[matching[i]]
             IN  AgentSession("gemini", geminiStatusFromSession(sess.messages),
                              sess.sessionID, "", cwd, pidsInCwd[i])
        ELSE AgentSession("gemini", StatusUnknown, "", "", cwd, pidsInCwd[i]) ]

\* The loop over cwdToPIDs; a map is ranged over in any order.
RECURSIVE PairGroups(_, _, _, _)
PairGroups(procs, parents, sessions, cwds) ==
    IF cwds = {} THEN {<<>>}
    ELSE UNION { UNION {
            { PairGroup(cwd,
                        SortAsc({ p \in SeqToSet(parents) :
                                    ReadProcessCwd(procs, p) = cwd }),
                        sessions, m) \o rest :
                rest \in PairGroups(procs, parents, sessions, cwds \ {cwd}) } :
            m \in SortByStartTime(sessions,
                                  matchAllGeminiSessionsByCwd(cwd, sessions)) } :
            cwd \in cwds }

\* The lists DiscoverGemini may return for this process table and these files.
DiscoverGeminiFrom(procs, parents, sessions) ==
    IF sessions = <<>>
    THEN { [ i \in 1..Len(parents) |->
               AgentSession("gemini", StatusUnknown, "", "",
                            ReadProcessCwd(procs, parents[i]), parents[i]) ] }
    ELSE PairGroups(procs, parents, sessions,
                    { ReadProcessCwd(procs, p) : p \in SeqToSet(parents) }
                        \ {"", "-"})

\* A Gemini CLI process (or its child) starts.
SpawnGemini ==
    /\ ~gDone
    /\ \E p \in 1..MaxGeminiPid :
         /\ ~gProcs[p].running
         /\ \E pp \in 0..(p - 1), c \in GeminiCwds :
              gProcs' = [gProcs EXCEPT ![p] = [running |-> TRUE, ppid |-> pp, cwd |-> c]]
    /\ UNCHANGED <<gSessions, gParents, gResults, gDone>>
    /\ UNCHANGED notGemini

\* Gemini writes a session file.
WriteGeminiSession ==
    /\ ~gDone
    /\ Len(gSessions) < MaxGeminiSessions
    /\ \E pr \in GeminiProjects, t \in GeminiStartTimes, ms \in GeminiMessageLists :
         gSessions' = Append(gSessions,
                             GeminiSession(pr, t, GeminiSessionIds[Len(gSessions) + 1], ms))
    /\ UNCHANGED <<gProcs, gParents, gResults, gDone>>
    /\ UNCHANGED notGemini

DiscoverGemini ==
    /\ ~gDone
    /\ findGeminiPIDs(gProcs) # <<>>
    /\ LET parents == filterGeminiParents(gProcs, findGeminiPIDs(gProcs))
       IN  /\ gParents' = parents
           /\ \E res \in DiscoverGeminiFrom(gProcs, parents, gSessions) :
                gResults' = res
    /\ gDone' = TRUE
    /\ UNCHANGED <<gProcs, gSessions>>
    /\ UNCHANGED notGemini

InitGemini ==
    /\ gProcs = [p \in 1..MaxGeminiPid |-> NoProcess]
    /\ gSessions = <<>>
    /\ gParents = <<>>
    /\ gResults = <<>>
    /\ gDone = FALSE

(***************************************************************************)
(* ConcurrentProbe.  The caller ranges over the items, wg.Add(1) and go    *)
(* for each, then wg.Wait() and return.  A goroutine: probe(it); when the  *)
(* session is not nil mu.Lock(), results = append(results, *session) (a    *)
(* read of the slice, then a write), mu.Unlock(); wg.Done() on the way     *)
(* out.  Item i stands for the i-th element of items.                      *)
(***************************************************************************)
ProbeItems == 1..MaxItems

\* What a probe function may return for an item: nil or a session.
ProbeOutcomes(it) ==
    { NilSession, AgentSession("claude", StatusIdle, "s", "-", "/live", it) }

MutexFreeNoLock == TRUE

\* mu.Lock() returns only when no goroutine holds mu
MutexFree == cpMu = 0

WaitGroupDoneEarly == cpWg <= 1

\* wg.Wait() returns only when the counter is zero
WaitGroupDone == cpWg = 0

CallConcurrentProbe ==
    /\ cpMain = "idle"
    /\ \E n \in 1..MaxItems : cpN' = n
    /\ cpMain' = "range"
    /\ cpNext' = 1
    /\ UNCHANGED <<cpTask, cpSession, cpTmp, cpMu, cpWg, cpResults, cpReturned>>
    /\ UNCHANGED notProbe

\* one iteration of the range loop: wg.Add(1); go func(it) {...}(item)
SpawnProbe ==
    /\ cpMain = "range"
    /\ cpNext <= cpN
    /\ cpWg' = cpWg + 1
    /\ cpTask' = [cpTask EXCEPT ![cpNext] = "probe"]
    /\ cpNext' = cpNext + 1
    /\ UNCHANGED <<cpMain, cpN, cpSession, cpTmp, cpMu, cpResults, cpReturned>>
    /\ UNCHANGED notProbe

EndRange ==
    /\ cpMain = "range"
    /\ cpNext > cpN
    /\ cpMain' = "wait"
    /\ UNCHANGED <<cpN, cpNext, cpTask, cpSession, cpTmp, cpMu, cpWg, cpResults,
                   cpReturned>>
    /\ UNCHANGED notProbe

\* wg.Wait(); return results
WaitAndReturn ==
    /\ cpMain = "wait"
    /\ WaitGroupDone
    /\ cpReturned' = cpResults
    /\ cpMain' = "returned"
    /\ UNCHANGED <<cpN, cpNext, cpTask, cpSession, cpTmp, cpMu, cpWg, cpResults>>
    /\ UNCHANGED notProbe

\* session := probe(it), with the append done without mu.Lock()
RunProbeAppendUnlocked(it) ==
    /\ cpTask[it] = "probe"
    /\ \E r \in ProbeOutcomes(it) :
         /\ cpSession' = [cpSession EXCEPT ![it] = r]
         /\ cpTask' = [cpTask EXCEPT ![it] = IF r = NilSession THEN "done" ELSE "read"]
    /\ UNCHANGED <<cpMain, cpN, cpNext, cpTmp, cpMu, cpWg, cpResults, cpReturned>>
    /\ UNCHANGED notProbe

\* session := probe(it)
RunProbe(it) ==
    /\ cpTask[it] = "probe"
    /\ \E r \in ProbeOutcomes(it) :
         /\ cpSession' = [cpSession EXCEPT ![it] = r]
         /\ cpTask' = [cpTask EXCEPT ![it] = IF r = NilSession THEN "done" ELSE "lock"]
    /\ UNCHANGED <<cpMain, cpN, cpNext, cpTmp, cpMu, cpWg, cpResults, cpReturned>>
    /\ UNCHANGED notProbe

Lock(it) ==
    /\ cpTask[it] = "lock"
    /\ MutexFree
    /\ cpMu' = it
    /\ cpTask' = [cpTask EXCEPT ![it] = "read"]
    /\ UNCHANGED <<cpMain, cpN, cpNext, cpSession, cpTmp, cpWg, cpResults, cpReturned>>
    /\ UNCHANGED notProbe

\* append(results, *session): the slice is read ...
AppendRead(it) ==
    /\ cpTask[it] = "read"
    /\ cpTmp' = [cpTmp EXCEPT ![it] = cpResults]
    /\ cpTask' = [cpTask EXCEPT ![it] = "write"]
    /\ UNCHANGED <<cpMain, cpN, cpNext, cpSession, cpMu, cpWg, cpResults, cpReturned>>
    /\ UNCHANGED notProbe

\* ... and results is assigned the extended slice
AppendWrite(it) ==
    /\ cpTask[it] = "write"
    /\ cpResults' = Append(cpTmp[it], cpSession[it])
    /\ cpTmp' = [cpTmp EXCEPT ![it] = <<>>]
    /\ cpTask' = [cpTask EXCEPT ![it] = "unlock"]
    /\ UNCHANGED <<cpMain, cpN, cpNext, cpSession, cpMu, cpWg, cpReturned>>
    /\ UNCHANGED notProbe

Unlock(it) ==
    /\ cpTask[it] = "unlock"
    /\ cpMu' = 0
    /\ cpTask' = [cpTask EXCEPT ![it] = "done"]
    /\ UNCHANGED <<cpMain, cpN, cpNext, cpSession, cpTmp, cpWg, cpResults, cpReturned>>
    /\ UNCHANGED notProbe

\* the deferred wg.Done()
WgDone(it) ==
    /\ cpTask[it] = "done"
    /\ cpWg' = cpWg - 1
    /\ cpTask' = [cpTask EXCEPT ![it] = "exited"]
    /\ UNCHANGED <<cpMain, cpN, cpNext, cpSession, cpTmp, cpMu, cpResults, cpReturned>>
    /\ UNCHANGED notProbe

ProbeTask ==
    \E it \in ProbeItems :
        \/ RunProbe(it)
        \/ Lock(it)
        \/ AppendRead(it)
        \/ AppendWrite(it)
        \/ Unlock(it)
        \/ WgDone(it)

InitProbe ==
    /\ cpMain = "idle"
    /\ cpN = 0
    /\ cpNext = 1
    /\ cpTask = [it \in ProbeItems |-> "unspawned"]
    /\ cpSession = [it \in ProbeItems |-> NilSession]
    /\ cpTmp = [it \in ProbeItems |-> <<>>]
    /\ cpMu = 0
    /\ cpWg = 0
    /\ cpResults = <<>>
    /\ cpReturned = <<>>

(***************************************************************************)
(* The discoverers as functions of what they read.  A discoverer returns   *)
(* the list ConcurrentProbe collected: the sessions that are not nil, in   *)
(* the order the goroutines appended them.                                 *)
(***************************************************************************)
\* One element of each set of the sequence choices
RECURSIVE Selections(_)
Selections(choices) ==
    IF choices = <<>> THEN {<<>>}
    ELSE { <<x>> \o rest : x \in Head(choices), rest \in Selections(Tail(choices)) }

IsSession(x) == x # NilSession

\* Every order of the elements of the sequence q
Reorderings(q) == { [ i \in 1..Len(q) |-> q[perm[i]] ] : perm \in Perms(1..Len(q)) }

\* choices[i]: the sessions probe may return for the i-th item
ConcurrentProbe(choices) ==
    UNION { Reorderings(SelectSeq(sel, IsSession)) : sel \in Selections(choices) }

(***************************************************************************)
(* OpenCode                                                                *)
(***************************************************************************)
ListenEntry(port, pid, cmd) == [port |-> port, pid |-> pid, cmd |-> cmd]

\* strings.EqualFold(e.Cmd, "opencode")
IsOpenCodeCmd(cmd) == cmd \in {"opencode", "OpenCode"}

\* findOpenCodeInstances: the first entry of each opencode PID
findOpenCodeInstances(entries) ==
    LET First(i) ==
            /\ IsOpenCodeCmd(entries[i].cmd)
            /\ \A j \in 1..(i - 1) :
                  ~(IsOpenCodeCmd(entries[j].cmd) /\ entries[j].pid = entries[i].pid)
        RECURSIVE Collect(_)
        Collect(i) ==
            IF i > Len(entries) THEN <<>>
            ELSE IF First(i)
                 THEN <<[port |-> entries[i].port, pid |-> entries[i].pid]>>
                          \o Collect(i + 1)
                 ELSE Collect(i + 1)
    IN  Collect(1)

fetchSessionStatusIgnoringError(resp) == resp.statusMap

\* fetchSessionStatus: the decoded map (a set of id/type entries), nil
\* (ranged over like an empty map) when the request or the decoding fails
fetchSessionStatus(resp) == IF resp.statusOk THEN resp.statusMap ELSE {}

\* fetchSessionList: the decoded list, nil when the request fails
fetchSessionList(resp) == IF resp.listOk THEN resp.list ELSE <<>>

\* the first entry of the list, whatever its id
sessionListLookupFirst(list, id) ==
    IF list = <<>> THEN [title |-> "", directory |-> ""]
    ELSE [title |-> Head(list).title, directory |-> Head(list).directory]

\* the first list entry with the id (title and directory stay "" without one)
RECURSIVE sessionListLookup(_, _)
sessionListLookup(list, id) ==
    IF list = <<>> THEN [title |-> "", directory |-> ""]
    ELSE IF Head(list).id = id
         THEN [title |-> Head(list).title, directory |-> Head(list).directory]
    ELSE sessionListLookup(Tail(list), id)

\* queryOpenCodeInstance: the sessions it may return; the range over the
\* status map starts at any entry
queryOpenCodeInstance(inst, resp) ==
    LET statusMap == fetchSessionStatus(resp)
    IN  IF statusMap = {}
        THEN { AgentSession("opencode", StatusIdle, "", "", "", inst.pid) }
        ELSE { LET m == sessionListLookup(fetchSessionList(resp), e.id)
               IN  AgentSession("opencode", e.type, e.id, m.title, m.directory, inst.pid) :
               e \in statusMap }

\* env: entries (FindListenTCP's result), http (port -> responses)
DiscoverOpenCode(env) ==
    LET instances == findOpenCodeInstances(env.entries)
    IN  IF instances = <<>> THEN {<<>>}
        ELSE ConcurrentProbe([ i \in 1..Len(instances) |->
                 queryOpenCodeInstance(instances[i], env.http[instances[i].port]) ])

(***************************************************************************)
(* Codex                                                                   *)
(***************************************************************************)
\* env: procs, the processes findCodexPIDs matched, each with what the
\* probe reads of it
DiscoverCodex(env) ==
    IF env.procs = <<>> THEN {<<>>}
    ELSE ConcurrentProbe([ i \in 1..Len(env.procs) |->
             LET pr == env.procs[i]
             IN  { probeCodexPID(pr.pid, pr.files, pr.lines, pr.openOk,
                                 pr.liveCwd, pr.row) } ])

(***************************************************************************)
(* Claude                                                                  *)
(***************************************************************************)
\* A debug log {session}.txt: its mtime and, line by line, the PID of the
\* first .tmp.{PID}. reference of the line (0: the line has none).
DebugLog(id, t, ls) == [session |-> id, modTime |-> t, lines |-> ls]

\* extractPIDFromDebugLog: the first referenced PID that is a target and
\* is not mapped yet, 0 without one
RECURSIVE extractPIDFromDebugLog(_, _, _)
extractPIDFromDebugLog(lines, target, mapped) ==
    IF lines = <<>> THEN 0
    ELSE IF Head(lines) \in target /\ mapped[Head(lines)] = ""
         THEN Head(lines)
    ELSE extractPIDFromDebugLog(Tail(lines), target, mapped)

\* the loop binding every unmapped candidate a file refers to
RECURSIVE pidMapLoopBindAll(_, _, _, _, _)
pidMapLoopBindAll(files, i, target, pidMap, remaining) ==
    IF i > Len(files) \/ remaining = 0 THEN pidMap
    ELSE LET found == { p \in target :
                          /\ pidMap[p] = ""
                          /\ \E k \in 1..Len(files[i].lines) : files[i].lines[k] = p }
         IN  pidMapLoopBindAll(files, i + 1, target,
                               [ p \in target |->
                                   IF p \in found THEN files[i].session ELSE pidMap[p] ],
                               remaining - Cardinality(found))

\* the loop over the sorted files, from file i on
RECURSIVE pidMapLoop(_, _, _, _, _)
pidMapLoop(files, i, target, pidMap, remaining) ==
    IF i > Len(files) \/ remaining = 0 THEN pidMap
    ELSE LET pid == extractPIDFromDebugLog(files[i].lines, target, pidMap)
         IN  IF pid # 0
             THEN pidMapLoop(files, i + 1, target,
                             [pidMap EXCEPT ![pid] = files[i].session], remaining - 1)
             ELSE pidMapLoop(files, i + 1, target, pidMap, remaining)

\* sort.Slice by modTime descending: every descending order is possible
SortByModTimeDesc(files) ==
    { q \in Reorderings(files) :
        \A j, k \in 1..Len(q) : j < k => q[j].modTime >= q[k].modTime }

\* buildPIDSessionMap: pid -> session id ("": no entry), for one outcome
\* of the sort
buildPIDSessionMap(pids, sortedFiles) ==
    pidMapLoop(sortedFiles, 1, SeqToSet(pids),
               [ p \in SeqToSet(pids) |-> "" ], Cardinality(SeqToSet(pids)))

\* probeClaudePID.  tr: the transcript resolveClaudeSession found for the
\* session id (tr.exists: whether it found one) and how reading it goes.
probeClaudePID(pid, pidMap, tr, liveCwd) ==
    IF pidMap[pid] = "" THEN NilSession
    ELSE IF ~tr.exists THEN NilSession
    ELSE LET r == readClaudeStatus(tr.lines, tr.cut, tr.ioOk, tr.finalNewline)
         IN  AgentSession("claude", r.status, pidMap[pid],
                          IF r.slug = "" THEN "-" ELSE r.slug,
                          IF r.cwd = "" THEN liveCwd ELSE r.cwd,
                          pid)

NoTranscript ==
    [exists |-> FALSE, lines |-> <<>>, cut |-> 0, ioOk |-> FALSE, finalNewline |-> FALSE]

\* env: pids (findClaudePIDs), logs (the debug directory), transcripts
\* (session id -> transcript), cwd (pid -> ReadProcessCwd)
\* the ConcurrentProbe call of DiscoverClaude, for one pidMap
ProbeClaudePIDs(env, pidMap) ==
    ConcurrentProbe([ i \in 1..Len(env.pids) |->
        LET pid == env.pids[i]
        IN  { probeClaudePID(pid, pidMap,
                             IF pidMap[pid] \in DOMAIN env.transcripts
                             THEN env.transcripts[pidMap[pid]]
                             ELSE NoTranscript,
                             env.cwd[pid]) } ])

DiscoverClaude(env) ==
    IF env.pids = <<>> THEN {<<>>}
    ELSE UNION { ProbeClaudePIDs(env, buildPIDSessionMap(env.pids, sorted)) :
                 sorted \in SortByModTimeDesc(env.logs) }

\* pidMap as the loop of buildPIDSessionMap leaves it after each file:
\* element n + 1 is the map after the first n files
pidMapTrace(pids, sortedFiles) ==
    [ n \in 1..(Len(sortedFiles) + 1) |->
        buildPIDSessionMap(pids, SubSeq(sortedFiles, 1, n - 1)) ]

(***************************************************************************)
(* Amp                                                                     *)
(***************************************************************************)
\* A thread file {id}.json; a tree holds its display name and the path
\* uriToPath gives for its URI ("" for a URI that is not a file:// URI).
AmpTree(n, u) == [displayName |-> n, uri |-> u]
AmpThreadFile(id, t, trees, ms) ==
    [id |-> id, modTime |-> t, trees |-> trees, messages |-> ms]

\* uriToPath: the path of a file:// URI, "" for any other URI
uriToPath(uri) ==
    CASE uri = "file:///a" -> "/a"
      [] uri = "file:///b" -> "/b"
      [] OTHER -> ""

AmpTreeMatches(cwd, tree) ==
    LET treePath == uriToPath(tree.uri)
    IN  /\ treePath # ""
        /\ (cwd = treePath \/ HasDirPrefix(cwd, treePath))

\* matchThreadByCwd without the sort: the first match in directory order
matchThreadByCwdUnsorted(cwd, threads) ==
    LET Matches(th) == \E i \in 1..Len(th.trees) : AmpTreeMatches(cwd, th.trees[i])
        RECURSIVE FirstMatch(_)
        FirstMatch(q) ==
            IF q = <<>> THEN {}
            ELSE IF Matches(Head(q)) THEN {Head(q)}
            ELSE FirstMatch(Tail(q))
    IN  FirstMatch(threads)

\* matchThreadByCwd: the threads it may return ({}: nil); the sort by
\* mtime descending leaves the order of equal mtimes open
matchThreadByCwd(cwd, threads) ==
    LET Matches(th) == \E i \in 1..Len(th.trees) : AmpTreeMatches(cwd, th.trees[i])
        RECURSIVE FirstMatch(_)
        FirstMatch(q) ==
            IF q = <<>> THEN {}
            ELSE IF Matches(Head(q)) THEN {Head(q)}
            ELSE FirstMatch(Tail(q))
    IN  UNION { FirstMatch(sorted) : sorted \in SortByModTimeDesc(threads) }

probeAmpPID(pid, cwd, threads) ==
    IF cwd = "" \/ cwd = "-" THEN {NilSession}
    ELSE IF matchThreadByCwd(cwd, threads) = {}
         THEN { AgentSession("amp", StatusUnknown, "", "", cwd, pid) }
    ELSE { AgentSession("amp", ampStatusFromThread(th.messages), th.id,
                        IF th.trees # <<>> THEN th.trees[1].displayName ELSE "-",
                        cwd, pid) :
           th \in matchThreadByCwd(cwd, threads) }

\* env: pids (findAmpPIDs), cwd (pid -> ReadProcessCwd), threads
DiscoverAmp(env) ==
    IF env.pids = <<>> THEN {<<>>}
    ELSE IF env.threads = <<>>
         THEN ConcurrentProbe([ i \in 1..Len(env.pids) |->
                  { AgentSession("amp", StatusUnknown, "", "",
                                 env.cwd[env.pids[i]], env.pids[i]) } ])
    ELSE ConcurrentProbe([ i \in 1..Len(env.pids) |->
             probeAmpPID(env.pids[i], env.cwd[env.pids[i]], env.threads) ])

(***************************************************************************)
(* Gemini                                                                  *)
(***************************************************************************)
\* env: procs (the process table), sessions (the session files)
DiscoverGeminiLists(env) ==
    IF findGeminiPIDs(env.procs) = <<>> THEN {<<>>}
    ELSE DiscoverGeminiFrom(env.procs,
                            filterGeminiParents(env.procs, findGeminiPIDs(env.procs)),
                            env.sessions)

(***************************************************************************)
(* What the discoverers may find when they run.                            *)
(***************************************************************************)
ListenEntries ==
    { ListenEntry(port, pid, cmd) :
        port \in {4096, 4097}, pid \in AgentPids, cmd \in {"opencode", "OpenCode", "node"} }

SessionListEntry(id, t, d) == [id |-> id, title |-> t, directory |-> d]

HttpResponses ==
    [ statusOk : BOOLEAN,
      statusMap : { {},
                    { [id |-> "ses_1", type |-> "busy"] },
                    { [id |-> "ses_1", type |-> "retry"], [id |-> "ses_2", type |-> "busy"] },
                    { [id |-> "ses_1", type |-> "working"] } },
      listOk : BOOLEAN,
      list : { <<>>,
               << SessionListEntry("ses_1", "Refactor", "/proj") >>,
               << SessionListEntry("ses_2", "Docs", "/docs"),
                  SessionListEntry("ses_1", "", "") >> } ]

OpenCodeEnvs ==
    [ entries : SeqsUpTo(ListenEntries, 2), http : [ {4096, 4097} -> HttpResponses ] ]

CodexProcs(pid) ==
    [ pid : {pid},
      files : { <<>>, << OpenFile(TRUE, "uuid-1") >>,
                << OpenFile(FALSE, ""), OpenFile(TRUE, "uuid-2") >> },
      lines : { <<>>, << RolloutLine("other", FALSE) >>,
                << RolloutLine("other", FALSE), RolloutLine("complete", FALSE) >>,
                << RolloutLine("other", TRUE), RolloutLine("complete", FALSE) >> },
      openOk : BOOLEAN,
      liveCwd : LiveCwds,
      row : ThreadRows ]

\* The candidate lists a FindPIDs call may return
PidLists == { <<>>, <<1>>, <<2>>, <<1, 2>> }

CodexEnvs ==
    { [procs |-> <<>>] }
    \cup { [procs |-> <<a>>] : a \in CodexProcs(1) \cup CodexProcs(2) }
    \cup { [procs |-> <<a, b>>] : a \in CodexProcs(1), b \in CodexProcs(2) }

DebugLogSets ==
    LET LogsOf(id) == { DebugLog(id, t, ls) :
                          t \in {1, 2}, ls \in { <<>>, <<1>>, <<0, 2>>, <<2, 1>> } }
    IN  { <<>> }
        \cup { <<a>> : a \in LogsOf("c1") }
        \cup { <<a, b>> : a \in LogsOf("c1"), b \in LogsOf("c2") }

ClaudeTranscripts ==
    { NoTranscript,
      [exists |-> TRUE, lines |-> <<>>, cut |-> 0, ioOk |-> FALSE, finalNewline |-> TRUE],
      [exists |-> TRUE, lines |-> <<>>, cut |-> 0, ioOk |-> TRUE, finalNewline |-> TRUE],
      [exists |-> TRUE, lines |-> << ClaudeLine("json", "assistant", "", "", "") >>,
       cut |-> 0, ioOk |-> TRUE, finalNewline |-> TRUE],
      [exists |-> TRUE,
       lines |-> << ClaudeLine("json", "user", "", "fix-bug", "/w"),
                    ClaudeLine("json", "assistant", "", "", ""),
                    ClaudeLine("json", "system", "turn_duration", "", "") >>,
       cut |-> 0, ioOk |-> TRUE, finalNewline |-> TRUE],
      [exists |-> TRUE,
       lines |-> << ClaudeLine("json", "user", "", "fix-bug", "/w"),
                    ClaudeLine("json", "assistant", "", "add-test", ""),
                    ClaudeLine("json", "system", "turn_duration", "", "/v") >>,
       cut |-> 0, ioOk |-> TRUE, finalNewline |-> TRUE],
      [exists |-> TRUE,
       lines |-> << ClaudeLine("json", "user", "", "fix-bug", "/w"),
                    ClaudeLine("json", "assistant", "", "", "") >>,
       cut |-> 1, ioOk |-> TRUE, finalNewline |-> TRUE],
      [exists |-> TRUE,
       lines |-> << ClaudeBad,
                    ClaudeLine("json", "user", "", "fix-bug", "/w"),
                    ClaudeBlank >>,
       cut |-> 0, ioOk |-> TRUE, finalNewline |-> FALSE] }

ClaudeEnvs ==
    [ pids : PidLists,
      logs : DebugLogSets,
      transcripts : [ {"c1", "c2"} -> ClaudeTranscripts ],
      cwd : [ AgentPids -> LiveCwds ] ]

AmpThreadFiles(id) ==
    { AmpThreadFile(id, t, trees, ms) :
        t \in {1, 2},
        trees \in { <<>>, << AmpTree("proj", "file:///a") >>,
                    << AmpTree("", "https://h/a"), AmpTree("b", "file:///b") >> },
        ms \in { <<>>, << AmpMessage("assistant", "streaming", "") >>,
                 << AmpMessage("assistant", "complete", "end_turn") >> } }

AmpEnvs ==
    [ pids : PidLists,
      cwd : [ AgentPids -> {"-", "/a", "/b/a"} ],
      threads : { <<>> }
                \cup { <<a>> : a \in AmpThreadFiles("T-1") }
                \cup { <<a, b>> : a \in AmpThreadFiles("T-1"), b \in AmpThreadFiles("T-2") } ]

GeminiProcTables ==
    { t \in [ AgentPids -> {NoProcess}
                \cup [ running : {TRUE}, ppid : {0, 1}, cwd : GeminiCwds ] ] :
        \A p \in AgentPids : t[p].ppid < p }

GeminiSessionLists ==
    LET Files(id) == { GeminiSession(pr, t, id, ms) :
                         pr \in GeminiProjects, t \in GeminiStartTimes,
                         ms \in GeminiMessageLists }
    IN  { <<>> }
        \cup { <<a>> : a \in Files("g1") }
        \cup { <<a, b>> : a \in Files("g1"), b \in Files("g2") }

GeminiEnvs == [ procs : GeminiProcTables, sessions : GeminiSessionLists ]

(***************************************************************************)
(* One run of one discoverer.                                              *)
(***************************************************************************)
RunDiscoverOpenCode ==
    /\ dAgent = "none"
    /\ \E env \in OpenCodeEnvs : \E r \in DiscoverOpenCode(env) :
         /\ dEnv' = env
         /\ dReturned' = r
    /\ dAgent' = "opencode"
    /\ dPidMaps' = <<>>
    /\ UNCHANGED notDiscover

RunDiscoverCodex ==
    /\ dAgent = "none"
    /\ \E env \in CodexEnvs : \E r \in DiscoverCodex(env) :
         /\ dEnv' = env
         /\ dReturned' = r
    /\ dAgent' = "codex"
    /\ dPidMaps' = <<>>
    /\ UNCHANGED notDiscover

RunDiscoverClaude ==
    /\ dAgent = "none"
    /\ \E env \in ClaudeEnvs :
         /\ dEnv' = env
         /\ IF env.pids = <<>>
            THEN dReturned' = <<>> /\ dPidMaps' = <<>>
            ELSE \E sorted \in SortByModTimeDesc(env.logs) :
                    /\ dPidMaps' = pidMapTrace(env.pids, sorted)
                    /\ \E r \in ProbeClaudePIDs(env,
                                    buildPIDSessionMap(env.pids, sorted)) :
                          dReturned' = r
    /\ dAgent' = "claude"
    /\ UNCHANGED notDiscover

RunDiscoverAmp ==
    /\ dAgent = "none"
    /\ \E env \in AmpEnvs : \E r \in DiscoverAmp(env) :
         /\ dEnv' = env
         /\ dReturned' = r
    /\ dAgent' = "amp"
    /\ dPidMaps' = <<>>
    /\ UNCHANGED notDiscover

RunDiscoverGemini ==
    /\ dAgent = "none"
    /\ \E env \in GeminiEnvs : \E r \in DiscoverGeminiLists(env) :
         /\ dEnv' = env
         /\ dReturned' = r
    /\ dAgent' = "gemini"
    /\ dPidMaps' = <<>>
    /\ UNCHANGED notDiscover

InitDiscover ==
    /\ dAgent = "none"
    /\ dEnv = [pids |-> <<>>]
    /\ dReturned = <<>>
    /\ dPidMaps = <<>>

(***************************************************************************)
(* main.  -agents is split on ","; each name is trimmed and lower-cased.   *)
(***************************************************************************)
AllAgents == <<"opencode", "codex", "claude", "amp", "gemini">>

\* strings.TrimSpace(strings.ToLower(name)) of the names a user may type
NormalizeName(name) ==
    CASE name = " Claude" -> "claude"
      [] name = "AMP" -> "amp"
      [] name = " " -> ""
      [] OTHER -> name

AgentNames == {"opencode", "codex", "claude", "amp", "gemini", " Claude", "AMP", " ", "cursor"}

\* -agents: not given (or blank), or one or two comma-separated names
AgentFlags == { <<>> } \cup { <<a>> : a \in AgentNames }
                  \cup { <<a, b>> : a \in AgentNames, b \in AgentNames }

\* parseAgents: nil (all |-> TRUE) for a blank flag, else the known names
parseAgents(raw) ==
    IF raw = <<>> \/ raw = <<" ">> THEN [all |-> TRUE, names |-> {}]
    ELSE [ all |-> FALSE,
           names |-> { NormalizeName(raw[i]) : i \in 1..Len(raw) }
                        \cap SeqToSet(AllAgents) ]

agentEnabled(selected, name) == selected.all \/ name \in selected.names

\* What the discoverers find while main runs: nothing, or one process.
MainOpenCodeEnvs ==
    { e \in OpenCodeEnvs :
        /\ Len(e.entries) <= 1
        /\ \A i \in 1..Len(e.entries) : e.entries[i] = ListenEntry(4096, 1, "opencode")
        /\ e.http[4097] = e.http[4096]
        /\ e.http[4096].statusOk /\ e.http[4096].listOk
        /\ e.http[4096].list # <<>>
        /\ Cardinality(e.http[4096].statusMap) <= 1 }

MainCodexEnvs ==
    { e \in CodexEnvs :
        /\ Len(e.procs) <= 1
        /\ \A i \in 1..Len(e.procs) :
              /\ e.procs[i].pid = 1
              /\ e.procs[i].openOk
              /\ e.procs[i].liveCwd = "/live"
              /\ ~e.procs[i].row.found
              /\ Len(e.procs[i].files) = 1
              /\ Len(e.procs[i].lines) = 1 }

MainClaudeEnvs ==
    { e \in ClaudeEnvs :
        /\ e.pids \in { <<>>, <<1>> }
        /\ e.logs = << DebugLog("c1", 1, <<1>>) >>
        /\ e.transcripts["c1"].exists /\ e.transcripts["c1"].ioOk
        /\ e.transcripts["c2"] = NoTranscript
        /\ \A p \in AgentPids : e.cwd[p] = "/live" }

MainAmpEnvs ==
    { e \in AmpEnvs :
        /\ e.pids \in { <<>>, <<2>> }
        /\ \A p \in AgentPids : e.cwd[p] = "/a"
        /\ Len(e.threads) = 1
        /\ e.threads[1].modTime = 1
        /\ e.threads[1].trees = << AmpTree("proj", "file:///a") >> }

\* agents := parseAgents(*agentsFlag)
ParseAgents ==
    /\ mPc = "parse"
    /\ \E raw \in AgentFlags : mSelected' = parseAgents(raw)
    /\ mPc' = "opencode"
    /\ UNCHANGED <<mInvoked, mOut, mSessions>>
    /\ UNCHANGED notMain

\* if agentEnabled(agents, "opencode") { sessions = append(sessions, ...) }
MainOpenCode ==
    /\ mPc = "opencode"
    /\ IF agentEnabled(mSelected, "opencode")
       THEN /\ \E env \in MainOpenCodeEnvs : \E r \in DiscoverOpenCode(env) :
                 /\ mSessions' = mSessions \o r
                 /\ mOut' = [mOut EXCEPT !["opencode"] = r]
            /\ mInvoked' = mInvoked \cup {"opencode"}
       ELSE UNCHANGED <<mInvoked, mOut, mSessions>>
    /\ mPc' = "codex"
    /\ UNCHANGED mSelected
    /\ UNCHANGED notMain

MainCodex ==
    /\ mPc = "codex"
    /\ IF agentEnabled(mSelected, "codex")
       THEN /\ \E env \in MainCodexEnvs : \E r \in DiscoverCodex(env) :
                 /\ mSessions' = mSessions \o r
                 /\ mOut' = [mOut EXCEPT !["codex"] = r]
            /\ mInvoked' = mInvoked \cup {"codex"}
       ELSE UNCHANGED <<mInvoked, mOut, mSessions>>
    /\ mPc' = "claude"
    /\ UNCHANGED mSelected
    /\ UNCHANGED notMain

MainClaude ==
    /\ mPc = "claude"
    /\ IF agentEnabled(mSelected, "claude")
       THEN /\ \E env \in MainClaudeEnvs : \E r \in DiscoverClaude(env) :
                 /\ mSessions' = mSessions \o r
                 /\ mOut' = [mOut EXCEPT !["claude"] = r]
            /\ mInvoked' = mInvoked \cup {"claude"}
       ELSE UNCHANGED <<mInvoked, mOut, mSessions>>
    /\ mPc' = "amp"
    /\ UNCHANGED mSelected
    /\ UNCHANGED notMain

\* the last discoverer main calls; the output is then printed
MainAmp ==
    /\ mPc = "amp"
    /\ IF agentEnabled(mSelected, "amp")
       THEN /\ \E env \in MainAmpEnvs : \E r \in DiscoverAmp(env) :
                 /\ mSessions' = mSessions \o r
                 /\ mOut' = [mOut EXCEPT !["amp"] = r]
            /\ mInvoked' = mInvoked \cup {"amp"}
       ELSE UNCHANGED <<mInvoked, mOut, mSessions>>
    /\ mPc' = "done"
    /\ UNCHANGED mSelected
    /\ UNCHANGED notMain

InitMain ==
    /\ mPc = "parse"
    /\ mSelected = [all |-> TRUE, names |-> {}]
    /\ mInvoked = {}
    /\ mOut = [a \in SeqToSet(AllAgents) |-> <<>>]
    /\ mSessions = <<>>

(***************************************************************************)
(* Platform introspection (linux: /proc; ReadProcessPPID: ps).  A process  *)
(* may exit at any moment, also between the system calls of one platform   *)
(* call: ListOpenFiles reads the directory /proc/{pid}/fd and then each    *)
(* link of it.                                                             *)
(***************************************************************************)
PlatformPaths == {"/x", "/y"}

PlatformProcesses ==
    [ alive : {TRUE}, fds : SeqsUpTo(PlatformPaths, MaxFds),
      cwd : {"/a", "/b"}, ppid : {1, 7} ]

NoPlatformProcess == [alive |-> FALSE, fds |-> <<>>, cwd |-> "", ppid |-> 0]

PlatformCall(op, pid, pc, gone, entries, idx, paths, cwd, ppid) ==
    [op |-> op, pid |-> pid, pc |-> pc, gone |-> gone, entries |-> entries,
     idx |-> idx, paths |-> paths, cwd |-> cwd, ppid |-> ppid]

NoPlatformCall == PlatformCall("none", 0, "idle", FALSE, 0, 0, <<>>, "", 0)

PlatformIdle == platCall.pc \in {"idle", "done"}

\* A process starts.
PlatformSpawn ==
    /\ \E pid \in AgentPids, proc \in PlatformProcesses :
         /\ platProcs[pid] = NoPlatformProcess
         /\ platProcs' = [platProcs EXCEPT ![pid] = proc]
    /\ UNCHANGED platCall
    /\ UNCHANGED notPlatform

\* A process exits: /proc/{pid} is gone (fds, cwd and ppid are kept here
\* as what the process had).
PlatformExit ==
    /\ \E pid \in AgentPids :
         /\ platProcs[pid].alive
         /\ platProcs' = [platProcs EXCEPT ![pid].alive = FALSE]
    /\ UNCHANGED platCall
    /\ UNCHANGED notPlatform

\* ListOpenFiles, os.ReadDir: an error returns nil
ListOpenFilesReadDir ==
    /\ PlatformIdle
    /\ \E pid \in AgentPids :
         platCall' =
            IF platProcs[pid].alive
            THEN PlatformCall("files", pid, "readlink", FALSE,
                              Len(platProcs[pid].fds), 1, <<>>, "", 0)
            ELSE PlatformCall("files", pid, "done", TRUE, 0, 0, <<>>, "", 0)
    /\ UNCHANGED platProcs
    /\ UNCHANGED notPlatform

\* ListOpenFiles, os.Readlink of one entry: an error skips the entry
\* (the process is gone, or it closed the descriptor)
ListOpenFilesReadlink ==
    /\ platCall.pc = "readlink"
    /\ platCall.idx <= platCall.entries
    /\ \E ok \in BOOLEAN :
         platCall' =
            [platCall EXCEPT
               !.idx = @ + 1,
               !.paths = IF ok /\ platProcs[platCall.pid].alive
                         THEN Append(@, platProcs[platCall.pid].fds[platCall.idx])
                         ELSE @]
    /\ UNCHANGED platProcs
    /\ UNCHANGED notPlatform

\* ListOpenFiles returns paths
ListOpenFilesReturn ==
    /\ platCall.pc = "readlink"
    /\ platCall.idx > platCall.entries
    /\ platCall' = [platCall EXCEPT !.pc = "done"]
    /\ UNCHANGED platProcs
    /\ UNCHANGED notPlatform

ReadlinkCwdNoSentinel(proc, ok) == IF ok /\ proc.alive THEN proc.cwd ELSE ""

\* os.Readlink of /proc/{pid}/cwd; ReadProcessCwd returns "-" on an error
ReadlinkCwd(proc, ok) == IF ok /\ proc.alive THEN proc.cwd ELSE "-"

\* ReadProcessCwd
PlatformReadProcessCwd ==
    /\ PlatformIdle
    /\ \E pid \in AgentPids, ok \in BOOLEAN :
         platCall' =
            PlatformCall("cwd", pid, "done", ~platProcs[pid].alive, 0, 0, <<>>,
                         ReadlinkCwd(platProcs[pid], ok), 0)
    /\ UNCHANGED platProcs
    /\ UNCHANGED notPlatform

\* ReadProcessPPID: ps -o ppid= -p PID, 0 when ps fails or prints no number
PlatformReadProcessPPID ==
    /\ PlatformIdle
    /\ \E pid \in AgentPids, ok \in BOOLEAN :
         platCall' =
            PlatformCall("ppid", pid, "done", ~platProcs[pid].alive, 0, 0, <<>>,
                         "",
                         IF ok /\ platProcs[pid].alive
                         THEN platProcs[pid].ppid ELSE 0)
    /\ UNCHANGED platProcs
    /\ UNCHANGED notPlatform

InitPlatform ==
    /\ platProcs = [pid \in AgentPids |-> NoPlatformProcess]
    /\ platCall = NoPlatformCall

(***************************************************************************)
(* FindPIDsByName / FindPIDsByArgs.  A command line is a sequence of       *)
(* tokens: words (strings without a space or NUL), " " and the NUL byte.   *)
(* A word                                                                  *)
(* is told by what the pattern (^|/)claude$ looks at: whether a '/' stands *)
(* before its last path element, and what that element is.                *)
(***************************************************************************)
FindSpace == [slash |-> FALSE, base |-> " "]
FindNul == [slash |-> FALSE, base |-> "NUL"]

FindWords == [slash : BOOLEAN, base : {"claude", "node"}]

\* An argument of the launch command: words with single spaces between.
FindArguments == UNION {[1..n -> FindWords] : n \in 1..MaxWords}

FindArgvs == UNION {[1..n -> FindArguments] : n \in 1..MaxArgs}

NoArgv == <<>>

RECURSIVE ArgumentString(_)
\* the argument as the string the kernel holds
ArgumentString(arg) ==
    IF Len(arg) = 1 THEN <<arg[1]>>
    ELSE ArgumentString(SubSeq(arg, 1, Len(arg) - 1)) \o <<FindSpace, arg[Len(arg)]>>

RECURSIVE ProcCmdline(_)
\* /proc/{pid}/cmdline: each argument followed by a NUL
ProcCmdline(argv) ==
    IF argv = <<>> THEN <<>>
    ELSE ProcCmdline(SubSeq(argv, 1, Len(argv) - 1))
            \o ArgumentString(argv[Len(argv)]) \o <<FindNul>>

RECURSIVE PsCommand(_)
\* the command column of ps: the arguments with a space between
PsCommand(argv) ==
    IF Len(argv) = 1 THEN ArgumentString(argv[1])
    ELSE PsCommand(SubSeq(argv, 1, Len(argv) - 1))
            \o <<FindSpace>> \o ArgumentString(argv[Len(argv)])

RECURSIVE SplitTokens(_, _)
\* strings.Split(s, sep): the pieces between the separators
SplitTokens(s, sep) ==
    IF \A i \in 1..Len(s) : s[i] # sep THEN <<s>>
    ELSE LET i == CHOOSE k \in 1..Len(s) :
                     s[k] = sep /\ \A j \in 1..(k - 1) : s[j] # sep
         IN <<SubSeq(s, 1, i - 1)>> \o SplitTokens(SubSeq(s, i + 1, Len(s)), sep)

\* strings.Fields(s): the non-empty pieces between spaces
FieldsOf(s) ==
    LET pieces == SplitTokens(s, FindSpace)
    IN {pieces[i] : i \in {k \in 1..Len(pieces) : pieces[k] # <<>>}}

\* re.MatchString(s) for the pattern (^|/)claude$
MatchString(s) ==
    /\ s # <<>>
    /\ s[Len(s)] \in FindWords
    /\ s[Len(s)].base = "claude"
    /\ s[Len(s)].slash \/ Len(s) = 1

FindRunning(procs) == {pid \in DOMAIN procs : procs[pid] # NoArgv}

\* linuxPlatform.FindPIDsByName: args[0] of the split cmdline
linuxFindPIDsByName(procs) ==
    {pid \in FindRunning(procs) :
        MatchString(SplitTokens(ProcCmdline(procs[pid]), FindNul)[1])}

\* darwinPlatform.FindPIDsByName: the first space-delimited piece of the
\* command column
darwinFindPIDsByName(procs) ==
    {pid \in FindRunning(procs) :
        MatchString(SplitTokens(PsCommand(procs[pid]), FindSpace)[1])}

\* darwinPlatform.FindPIDsByArgs: any field of the command column
darwinFindPIDsByArgs(procs) ==
    {pid \in FindRunning(procs) :
        \E f \in FieldsOf(PsCommand(procs[pid])) : MatchString(f)}

FindCall(os, fn, procs, pids) == [os |-> os, fn |-> fn, procs |-> procs, pids |-> pids]

NoFindCall == FindCall("none", "none", <<>>, {})

\* A process is launched with argv.
FindExec ==
    /\ findCall = NoFindCall
    /\ \E pid \in AgentPids, argv \in FindArgvs :
         /\ findProcs[pid] = NoArgv
         /\ findProcs' = [findProcs EXCEPT ![pid] = argv]
    /\ UNCHANGED findCall
    /\ UNCHANGED notFind

\* A process exits.
FindExit ==
    /\ findCall = NoFindCall
    /\ \E pid \in AgentPids :
         /\ findProcs[pid] # NoArgv
         /\ findProcs' = [findProcs EXCEPT ![pid] = NoArgv]
    /\ UNCHANGED findCall
    /\ UNCHANGED notFind

LinuxFindPIDsByName ==
    /\ findCall = NoFindCall
    /\ findCall' = FindCall("linux", "FindPIDsByName", findProcs,
                            linuxFindPIDsByName(findProcs))
    /\ UNCHANGED findProcs
    /\ UNCHANGED notFind

DarwinFindPIDsByName ==
    /\ findCall = NoFindCall
    /\ findCall' = FindCall("darwin", "FindPIDsByName", findProcs,
                            darwinFindPIDsByName(findProcs))
    /\ UNCHANGED findProcs
    /\ UNCHANGED notFind

DarwinFindPIDsByArgs ==
    /\ findCall = NoFindCall
    /\ findCall' = FindCall("darwin", "FindPIDsByArgs", findProcs,
                            darwinFindPIDsByArgs(findProcs))
    /\ UNCHANGED findProcs
    /\ UNCHANGED notFind

InitFind ==
    /\ findProcs = [pid \in AgentPids |-> NoArgv]
    /\ findCall = NoFindCall

(***************************************************************************)
(* geminiStatusFromSession over the messages of one session file, as       *)
(* Gemini appends them.                                                    *)
(***************************************************************************)
\* geminiMessage.Type: the documented types, and one that is not
GeminiMessageTypes == {"user", "gemini", "error", "info", "warning"}

AppendGeminiMessage ==
    /\ gsOut = "none"
    /\ Len(gsMessages) < MaxGeminiMessages
    /\ \E t \in GeminiMessageTypes : gsMessages' = Append(gsMessages, t)
    /\ UNCHANGED gsOut
    /\ UNCHANGED notGeminiStatus

GeminiStatusFromSession ==
    /\ gsOut = "none"
    /\ gsOut' = geminiStatusFromSession(gsMessages)
    /\ UNCHANGED gsMessages
    /\ UNCHANGED notGeminiStatus

InitGeminiStatus ==
    /\ gsMessages = <<>>
    /\ gsOut = "none"

(***************************************************************************)
(* readClaudeStatus called again and again on a transcript that grows and  *)
(* stays within tailSize (the file is scanned whole each time).            *)
(***************************************************************************)
\* Claude Code appends a line to the transcript.
GrowClaudeTranscript ==
    /\ Len(cgTranscript) < MaxGrowth
    /\ \E e \in ClaudeLines : cgTranscript' = Append(cgTranscript, e)
    /\ cgBefore' = cgAfter
    /\ cgAfter' = "none"
    /\ UNCHANGED notClaudeGrowth

\* readClaudeStatus on the transcript as it is
ReadGrownTranscript ==
    /\ cgAfter = "none"
    /\ cgAfter' = readClaudeStatus(cgTranscript, 0, TRUE, TRUE).status
    /\ UNCHANGED <<cgTranscript, cgBefore>>
    /\ UNCHANGED notClaudeGrowth

InitClaudeGrowth ==
    /\ cgTranscript = <<>>
    /\ cgBefore = "none"
    /\ cgAfter = "none"

InitClaude ==
    /\ transcript = <<>>
    /\ tailCut = 0
    /\ scanned = <<>>
    /\ claudeOut = NotRead
    /\ claudeNewline = FALSE
    /\ claudeIoOk = FALSE
    /\ claudeFirst = NotRead
    /\ claudeReads = 0

Init ==
    /\ InitClaude /\ InitCodex /\ InitAmp /\ InitGemini /\ InitProbe
    /\ InitPlatform /\ InitFind /\ InitGeminiStatus /\ InitClaudeGrowth
    /\ InitDiscover /\ InitMain

NextClaude == AppendClaudeLine \/ ReadClaudeStatus \/ RereadClaudeStatus

SpecClaude == Init /\ [][NextClaude]_vars

NextCodex == AppendRolloutLine \/ ProbeCodexPID

SpecCodex == Init /\ [][NextCodex]_vars

NextAmp == AppendAmpMessage \/ AmpStatusFromThread

SpecAmp == Init /\ [][NextAmp]_vars

NextGemini == SpawnGemini \/ WriteGeminiSession \/ DiscoverGemini

SpecGemini == Init /\ [][NextGemini]_vars

NextProbe ==
    \/ CallConcurrentProbe
    \/ SpawnProbe
    \/ EndRange
    \/ WaitAndReturn
    \/ ProbeTask

SpecProbe == Init /\ [][NextProbe]_vars

NextDiscover ==
    \/ RunDiscoverAmp
    \/ RunDiscoverGemini
    \/ RunDiscoverClaude
    \/ RunDiscoverCodex
    \/ RunDiscoverOpenCode

SpecDiscover == Init /\ [][NextDiscover]_vars

NextPlatform ==
    \/ PlatformSpawn
    \/ PlatformExit
    \/ ListOpenFilesReadDir
    \/ ListOpenFilesReadlink
    \/ ListOpenFilesReturn
    \/ PlatformReadProcessCwd
    \/ PlatformReadProcessPPID

SpecPlatform == Init /\ [][NextPlatform]_vars

NextClaudeGrowth == GrowClaudeTranscript \/ ReadGrownTranscript

SpecClaudeGrowth == Init /\ [][NextClaudeGrowth]_vars

NextGeminiStatus == AppendGeminiMessage \/ GeminiStatusFromSession

SpecGeminiStatus == Init /\ [][NextGeminiStatus]_vars

NextFind ==
    \/ FindExec
    \/ FindExit
    \/ LinuxFindPIDsByName
    \/ DarwinFindPIDsByName
    \/ DarwinFindPIDsByArgs

SpecFind == Init /\ [][NextFind]_vars

Next == ParseAgents \/ MainOpenCode \/ MainCodex \/ MainClaude \/ MainAmp

Spec == Init /\ [][Next]_vars

(***************************************************************************)
(* Positions of the markers in the scanned lines (1-based, 0: none).       *)
(***************************************************************************)
LastIndex(lines, P(_)) ==
    LET hits == {i \in 1..Len(lines) : P(lines[i])}
    IN  IF hits = {} THEN 0 ELSE CHOOSE i \in hits : \A j \in hits : j <= i

ClaudeScanRan == claudeOut.status \notin {"none", StatusUnknown}

CodexProbed == codexIn # NoProbe /\ codexOut # NilSession

\* The last line of the rollout file that is not blank ("none": no such line).
LastNonBlankOfFile == LastNonBlank(rollout)

\* C3: readRolloutStatus looks only at the last non-blank line of the
\* rollout file: a task_complete record gives idle, any other well-formed
\* record gives busy, a file with no non-blank line gives unknown.
C3_RolloutLastLineRule ==
    (CodexProbed /\ codexIn.openOk) =>
        /\ LastNonBlankOfFile = "complete" => codexOut.status = StatusIdle
        /\ LastNonBlankOfFile = "other" => codexOut.status = StatusBusy
        /\ LastNonBlankOfFile = "none" => codexOut.status = StatusUnknown

\* C9: probeCodexPID's enrichment: without a database row the title is "-"
\* and the directory is the live working directory; with a row the title is
\* the stored one and the directory the stored one unless that is empty;
\* the status is the rollout file's in both cases.
C9_CodexEnrichment ==
    CodexProbed =>
        /\ ~codexIn.row.found =>
              /\ codexOut.title = "-"
              /\ codexOut.directory = codexIn.liveCwd
        /\ codexIn.row.found =>
              /\ codexOut.title = codexIn.row.title
              /\ codexIn.row.cwd # "" => codexOut.directory = codexIn.row.cwd
              /\ codexIn.row.cwd = "" => codexOut.directory = codexIn.liveCwd
        /\ codexOut.status = readRolloutStatus(rollout, codexIn.openOk)
        /\ codexOut.status \in {StatusIdle, StatusBusy, StatusUnknown}

\* One Codex process, rollout ending in a task_started record, no row.
C9_Witness ==
    /\ CodexProbed
    /\ ~codexIn.row.found
    /\ rollout = <<RolloutLine("other", FALSE)>>
    /\ codexOut.status = StatusBusy
    /\ codexOut.title = "-"
    /\ codexOut.directory = "/live"

(***************************************************************************)
(* Amp claims                                                              *)
(***************************************************************************)
IsAmpAssistant(m) == m.role = "assistant"

\* C4: ampStatusFromThread uses only the last assistant message: streaming
\* gives busy, complete with stopReason tool_use gives busy, complete with
\* another stopReason, cancelled, error or an absent state gives idle, and
\* a thread without an assistant message gives idle.
C4_AmpLastAssistantRule ==
    ampOut # "none" =>
        LET i == LastIndex(ampMessages, IsAmpAssistant)
        IN  IF i = 0 THEN ampOut = StatusIdle
            ELSE LET m == ampMessages[i]
                 IN  /\ m.type = "streaming" => ampOut = StatusBusy
                     /\ (m.type = "complete" /\ m.stopReason = "tool_use")
                            => ampOut = StatusBusy
                     /\ (m.type = "complete" /\ m.stopReason # "tool_use")
                            => ampOut = StatusIdle
                     /\ m.type \in {"cancelled", "error", ""} => ampOut = StatusIdle

\* A finished assistant turn followed by a user message: still idle.
C4_Witness ==
    /\ ampOut = StatusIdle
    /\ Len(ampMessages) = 3
    /\ ampMessages[1] = AmpMessage("assistant", "streaming", "tool_use")
    /\ ampMessages[2] = AmpMessage("assistant", "complete", "end_turn")
    /\ ampMessages[3] = AmpMessage("user", "streaming", "tool_use")

(***************************************************************************)
(* Gemini claims                                                           *)
(***************************************************************************)
GeminiCandidates == { p \in 1..MaxGeminiPid : gProcs[p].running }

\* C5: filterGeminiParents returns exactly the candidates whose parent PID
\* is not a candidate: every candidate with a candidate parent is removed
\* and no other candidate is.
C5_GeminiParentFilter ==
    gDone =>
        /\ SeqToSet(gParents) =
              { p \in GeminiCandidates : gProcs[p].ppid \notin GeminiCandidates }
        /\ \A i, j \in 1..Len(gParents) : i # j => gParents[i] # gParents[j]

\* A parent is kept and its child, a candidate too, is removed.
C5_Witness ==
    /\ gDone
    /\ gProcs[1].running /\ gProcs[1].ppid = 0
    /\ gProcs[2].running /\ gProcs[2].ppid = 1
    /\ gParents = <<1>>

\* The records DiscoverGemini returned for pid p
GeminiRecordsOf(p) == { i \in 1..Len(gResults) : gResults[i].pid = p }

GeminiGroup(cwd) == { p \in SeqToSet(gParents) : gProcs[p].cwd = cwd }

GeminiMatching(cwd) ==
    { i \in 1..Len(gSessions) : matchGeminiProject(cwd, gSessions[i].project) }

\* The session files with the given session id
GeminiFilesOf(id) == { i \in 1..Len(gSessions) : gSessions[i].sessionID = id }

\* C6: in one working-directory group the i-th PID (ascending) gets the
\* i-th matching session (by start time ascending), and a PID beyond the
\* number of matching sessions gets status unknown.
C6_GeminiPositionalPairing ==
    (gDone /\ gSessions # <<>>) =>
        \A cwd \in GeminiCwds \ {"-"} :
            \A p \in GeminiGroup(cwd) :
                LET rank == Cardinality({ q \in GeminiGroup(cwd) : q <= p })
                    M == GeminiMatching(cwd)
                IN  /\ Cardinality(GeminiRecordsOf(p)) = 1
                    /\ \A r \in GeminiRecordsOf(p) :
                         IF rank <= Cardinality(M)
                         THEN \E s \in M :
                                /\ gResults[r].sessionID = gSessions[s].sessionID
                                /\ gResults[r].status =
                                      geminiStatusFromSession(gSessions[s].messages)
                                /\ Cardinality({ x \in M : gSessions[x].startTime
                                                     < gSessions[s].startTime }) < rank
                                /\ rank <= Cardinality({ x \in M : gSessions[x].startTime
                                                     <= gSessions[s].startTime })
                         ELSE /\ gResults[r].status = StatusUnknown
                              /\ gResults[r].sessionID = ""
                    /\ \A q \in GeminiGroup(cwd) \ {p} :
                         \A r \in GeminiRecordsOf(p), t \in GeminiRecordsOf(q) :
                            gResults[r].sessionID # "" =>
                                gResults[r].sessionID # gResults[t].sessionID

\* Start times T1 < T2, PIDs 1 < 2 in the same directory: 1 gets the T1
\* session although that file was written second.
C6_Witness ==
    /\ gDone
    /\ Len(gSessions) = 2
    /\ gSessions[1].startTime = 2 /\ gSessions[2].startTime = 1
    /\ gSessions[1].project = gSessions[2].project
    /\ gParents = <<1, 2>>
    /\ gProcs[1].cwd = "/a" /\ gProcs[2].cwd = "/a"
    /\ \E i, j \in 1..Len(gResults) :
         /\ gResults[i].pid = 1 /\ gResults[i].sessionID = gSessions[2].sessionID
         /\ gResults[j].pid = 2 /\ gResults[j].sessionID = gSessions[1].sessionID

(***************************************************************************)
(* ConcurrentProbe claims                                                  *)
(***************************************************************************)
\* C7: ConcurrentProbe returns only after every task has finished, and the
\* returned collection holds exactly one record for each item whose probe
\* returned a session and nothing for the items whose probe returned nil.
C7_ProbeJoinsAndKeepsAll ==
    cpMain = "returned" =>
        /\ \A it \in 1..cpN : cpTask[it] = "exited"
        /\ \A it \in 1..cpN :
              cpSession[it] # NilSession =>
                  Cardinality({ i \in 1..Len(cpReturned) :
                                  cpReturned[i] = cpSession[it] }) = 1
        /\ \A i \in 1..Len(cpReturned) :
              /\ cpReturned[i] # NilSession
              /\ \E it \in 1..cpN : cpReturned[i] = cpSession[it]
        /\ Len(cpReturned) =
              Cardinality({ it \in 1..cpN : cpSession[it] # NilSession })

\* Three items, the second probe returns nil, the third task appends first.
C7_Witness ==
    /\ cpMain = "returned"
    /\ cpN = 3
    /\ cpSession[2] = NilSession
    /\ Len(cpReturned) = 2
    /\ cpReturned[1] = cpSession[3]
    /\ cpReturned[2] = cpSession[1]

(***************************************************************************)
(* Claims about every session record                                       *)
(***************************************************************************)
\* C1: every session record a discoverer returns has a status among busy,
\* idle, retry, unknown and a PID greater than zero.
C1_StatusAndPid ==
    \A i \in 1..Len(dReturned) :
        /\ dReturned[i].status \in Statuses
        /\ dReturned[i].pid > 0

\* C10: in every session record a discoverer returns, title and directory
\* are not empty ("-" stands for an absent one).
C10_TitleAndDirectoryNotEmpty ==
    \A i \in 1..Len(dReturned) :
        /\ dReturned[i].title # ""
        /\ dReturned[i].directory # ""

(***************************************************************************)
(* main claims                                                             *)
(***************************************************************************)
\* C8: the collector invokes the discoverer of every enabled known agent
\* (all of them without a selection), so that no enabled agent's sessions
\* are missing from the output.
C8_EveryEnabledDiscovererInvoked ==
    mPc = "done" =>
        /\ \A i \in 1..Len(AllAgents) :
              agentEnabled(mSelected, AllAgents[i]) => AllAgents[i] \in mInvoked
        /\ mSessions = mOut["opencode"] \o mOut["codex"] \o mOut["claude"]
                          \o mOut["amp"] \o mOut["gemini"]



(***************************************************************************)
(* Amp discovery                                                           *)
(***************************************************************************)
\* The candidate PID p matches no thread file of the environment.
AmpUnmatched(p) == matchThreadByCwd(dEnv.cwd[p], dEnv.threads) = {}

\* C11: every candidate Amp PID whose working directory matches no thread
\* file has a record with status unknown in what DiscoverAmp returns,
\* whether or not there are thread files.
C11_AmpUnmatchedReported ==
    dAgent = "amp" =>
        \A i \in 1..Len(dEnv.pids) :
            AmpUnmatched(dEnv.pids[i]) =>
                \E j \in 1..Len(dReturned) :
                    /\ dReturned[j].pid = dEnv.pids[i]
                    /\ dReturned[j].status = StatusUnknown

(***************************************************************************)
(* Platform introspection                                                  *)
(***************************************************************************)
RECURSIVE IsSubsequence(_, _)
IsSubsequence(a, b) ==
    IF a = <<>> THEN TRUE
    ELSE IF b = <<>> THEN FALSE
    ELSE IF Head(a) = Head(b) THEN IsSubsequence(Tail(a), Tail(b))
    ELSE IsSubsequence(a, Tail(b))

\* C12: a platform call on a PID that no longer exists returns the empty
\* list (open files), "-" (working directory) or 0 (parent PID); when the
\* process exits at any moment of a call, the call still returns, with
\* that value or with what the process had, and reads no entry out of range.
C12_PlatformNeverFailsHard ==
    LET proc == platProcs[platCall.pid]
    IN  /\ platCall.pc = "readlink" =>
              /\ platCall.idx \in 1..(platCall.entries + 1)
              /\ platCall.entries = Len(proc.fds)
        /\ platCall.pc = "done" =>
              /\ platCall.op = "files" =>
                    /\ IsSubsequence(platCall.paths, proc.fds)
                    /\ platCall.gone => platCall.paths = <<>>
              /\ platCall.op = "cwd" =>
                    /\ platCall.cwd \in {"-", proc.cwd}
                    /\ platCall.gone => platCall.cwd = "-"
              /\ platCall.op = "ppid" =>
                    /\ platCall.ppid \in {0, proc.ppid}
                    /\ platCall.gone => platCall.ppid = 0

\* The working directory of a process that had one and open files, read
\* after it exited.
C12_Witness ==
    /\ platCall.pc = "done"
    /\ platCall.op = "cwd"
    /\ platCall.gone
    /\ platProcs[platCall.pid].fds # <<>>
    /\ platProcs[platCall.pid].cwd = "/a"
    /\ platCall.cwd = "-"

(***************************************************************************)
(* Codex: the rule of the component design                                 *)
(***************************************************************************)
\* C13: a last non-blank line with payload.type task_complete gives idle;
\* anything else, an unparsable last line and an empty file included, gives
\* busy; unknown is given when the rollout file cannot be opened, and only
\* then.
C13_RolloutDesignRule ==
    CodexProbed =>
        /\ ~codexIn.openOk => codexOut.status = StatusUnknown
        /\ (codexIn.openOk /\ LastNonBlankOfFile = "complete") =>
              codexOut.status = StatusIdle
        /\ (codexIn.openOk /\ LastNonBlankOfFile # "complete") =>
              codexOut.status = StatusBusy

(***************************************************************************)
(* Failure isolation.  The state holds one run (dEnv, dReturned); the      *)
(* environments below are dEnv with the inspection of one candidate made   *)
(* to fail, each with the candidates the failure belongs to.               *)
(***************************************************************************)
RemoveAt(q, k) == SubSeq(q, 1, k - 1) \o SubSeq(q, k + 1, Len(q))

DiscoverOf(agent, env) ==
    CASE agent = "opencode" -> DiscoverOpenCode(env)
      [] agent = "codex" -> DiscoverCodex(env)
      [] agent = "claude" -> DiscoverClaude(env)
      [] agent = "amp" -> DiscoverAmp(env)
      [] agent = "gemini" -> DiscoverGeminiLists(env)

PidsOf(records) == { records[i].pid : i \in 1..Len(records) }

\* HTTP endpoint of an instance: the status or the list request fails
OpenCodeFailures(env) ==
    LET at(port) == { e.pid : e \in { x \in SeqToSet(env.entries) : x.port = port } }
    IN  { <<[env EXCEPT !.http[port].statusOk = FALSE], at(port)>> : port \in {4096, 4097} }
        \cup { <<[env EXCEPT !.http[port].listOk = FALSE], at(port)>> : port \in {4096, 4097} }

\* open files, rollout file, working directory or thread database of a
\* Codex process cannot be read
CodexFailures(env) ==
    UNION { { <<[env EXCEPT !.procs[i].files = <<>>], {env.procs[i].pid}>>,
              <<[env EXCEPT !.procs[i].openOk = FALSE], {env.procs[i].pid}>>,
              <<[env EXCEPT !.procs[i].liveCwd = "-"], {env.procs[i].pid}>>,
              <<[env EXCEPT !.procs[i].row = NoRow], {env.procs[i].pid}>> } :
            i \in 1..Len(env.procs) }

\* working directory of a Claude process, or the transcript of a session
ClaudeFailures(env) ==
    LET of(s) == { p \in SeqToSet(env.pids) :
                     \E sorted \in SortByModTimeDesc(env.logs) :
                         buildPIDSessionMap(env.pids, sorted)[p] = s }
    IN  { <<[env EXCEPT !.cwd[p] = "-"], {p}>> : p \in SeqToSet(env.pids) }
        \cup { <<[env EXCEPT !.transcripts[s] = NoTranscript], of(s)>> : s \in {"c1", "c2"} }
        \cup { <<[env EXCEPT !.transcripts[s].ioOk = FALSE], of(s)>> : s \in {"c1", "c2"} }

\* working directory of an Amp process, or a thread file (loadAmpThreads
\* leaves out a file it cannot read or decode)
AmpFailures(env) ==
    LET of(k) == { p \in SeqToSet(env.pids) :
                     env.threads[k] \in matchThreadByCwd(env.cwd[p], env.threads) }
    IN  { <<[env EXCEPT !.cwd[p] = "-"], {p}>> : p \in SeqToSet(env.pids) }
        \cup { <<[env EXCEPT !.threads = RemoveAt(env.threads, k)], of(k)>> :
               k \in 1..Len(env.threads) }

\* working directory or parent PID of a Gemini process, or a session file
GeminiFailures(env, records) ==
    LET running == { p \in DOMAIN env.procs : env.procs[p].running }
        of(k) == { records[j].pid : j \in { i \in 1..Len(records) :
                       records[i].sessionID = env.sessions[k].sessionID } }
    IN  { <<[env EXCEPT !.procs[p].cwd = "-"], {p}>> : p \in running }
        \cup { <<[env EXCEPT !.procs[p].ppid = 0], {p}>> : p \in running }
        \cup { <<[env EXCEPT !.sessions = RemoveAt(env.sessions, k)], of(k)>> :
               k \in 1..Len(env.sessions) }

FailuresOf(agent, env, records) ==
    CASE agent = "opencode" -> OpenCodeFailures(env)
      [] agent = "codex" -> CodexFailures(env)
      [] agent = "claude" -> ClaudeFailures(env)
      [] agent = "amp" -> AmpFailures(env)
      [] agent = "gemini" -> GeminiFailures(env, records)

\* The record has status unknown or a field left empty or at "-".
Degraded(r) ==
    \/ r.status = StatusUnknown
    \/ r.sessionID = ""
    \/ r.title \in {"", "-"}
    \/ r.directory \in {"", "-"}

\* C14: when the inspection of one candidate fails, the discoverer still
\* returns, and what it returns compares as follows with a run without the
\* failure: every other candidate that has a record there still has one,
\* and the failing candidate has no record, or the record it has there, or
\* one with status unknown or an empty / "-" field.
C14_FailureIsolation ==
    dAgent # "none" =>
        \A f \in FailuresOf(dAgent, dEnv, dReturned) :
            /\ DiscoverOf(dAgent, f[1]) # {}
            /\ \A rf \in DiscoverOf(dAgent, f[1]) :
                  \E r \in DiscoverOf(dAgent, dEnv) :
                      /\ \A q \in PidsOf(r) \ f[2] : q \in PidsOf(rf)
                      /\ \A j \in 1..Len(rf) :
                            rf[j].pid \in f[2] =>
                                \/ Degraded(rf[j])
                                \/ \E i \in 1..Len(r) : r[i] = rf[j]

(***************************************************************************)
(* Determinism of one collection run                                       *)
(***************************************************************************)
\* C15: for one environment, every run of a discoverer returns the same set
\* of session records, whatever the goroutine interleaving, the map
\* iteration order and the order the sorts leave equal keys in.
C15_DeterministicFusion ==
    dAgent # "none" =>
        \A r \in DiscoverOf(dAgent, dEnv) : SeqToSet(r) = SeqToSet(dReturned)

(***************************************************************************)
(* Claude: buildPIDSessionMap                                              *)
(***************************************************************************)
\* The debug logs of the environment that hold a reference to the PID p.
ClaudeLogsWith(p) ==
    { k \in 1..Len(dEnv.logs) : p \in SeqToSet(dEnv.logs[k].lines) }

\* C16: buildPIDSessionMap binds every candidate PID that a debug log
\* refers to: to the session of a log that refers to it, the most recently
\* modified one; a candidate stays unmapped only if no log refers to it.
C16_PidSessionMap ==
    dAgent = "claude" =>
        \A sorted \in SortByModTimeDesc(dEnv.logs) :
            LET pidMap == buildPIDSessionMap(dEnv.pids, sorted)
            IN  \A p \in SeqToSet(dEnv.pids) :
                    /\ pidMap[p] = "" => ClaudeLogsWith(p) = {}
                    /\ pidMap[p] # "" =>
                          \E k \in ClaudeLogsWith(p) :
                              /\ dEnv.logs[k].session = pidMap[p]
                              /\ \A n \in ClaudeLogsWith(p) :
                                    dEnv.logs[n].modTime <= dEnv.logs[k].modTime

(***************************************************************************)
(* Claude: the rule of the README                                          *)
(***************************************************************************)
IsUser(e) == e.kind = "json" /\ e.type = "user"

\* An entry the documented rule gives a status for.
IsStatusBearing(e) == IsTurnDuration(e) \/ IsAssistant(e) \/ IsUser(e)

\* C17: the most recent status-bearing entry of the scanned lines decides:
\* a turn_duration entry gives idle, an assistant or a user entry gives
\* busy (so a user entry after a turn_duration entry gives busy).
C17_DocumentedClaudeRule ==
    ClaudeScanRan =>
        LET last == LastIndex(scanned, IsStatusBearing)
        IN  last > 0 =>
                /\ IsTurnDuration(scanned[last]) => claudeOut.status = StatusIdle
                /\ IsAssistant(scanned[last]) => claudeOut.status = StatusBusy
                /\ IsUser(scanned[last]) => claudeOut.status = StatusBusy

(***************************************************************************)
(* OpenCode: one record for each instance                                  *)
(***************************************************************************)
\* The records the run returned for the PID p.
OpenCodeRecordsOf(p) == { j \in 1..Len(dReturned) : dReturned[j].pid = p }

\* C18: DiscoverOpenCode returns exactly one record for each instance; an
\* instance whose status request fails or answers an empty map has the
\* record {idle, its PID, no session id, title or directory}; an instance
\* whose session-list request fails still has its record, with the status
\* and session id of a status-map entry and no title or directory.
C18_OpenCodeOneRecordEach ==
    dAgent = "opencode" =>
        LET instances == findOpenCodeInstances(dEnv.entries)
        IN  /\ Len(dReturned) = Len(instances)
            /\ \A i \in 1..Len(instances) :
                  LET resp == dEnv.http[instances[i].port]
                      pid == instances[i].pid
                  IN  /\ Cardinality(OpenCodeRecordsOf(pid)) = 1
                      /\ \A j \in OpenCodeRecordsOf(pid) :
                            /\ (~resp.statusOk \/ resp.statusMap = {}) =>
                                  dReturned[j] =
                                      AgentSession("opencode", StatusIdle, "", "", "", pid)
                            /\ (resp.statusOk /\ resp.statusMap # {}) =>
                                  \E e \in resp.statusMap :
                                      /\ dReturned[j].status = e.type
                                      /\ dReturned[j].sessionID = e.id
                            /\ ~resp.listOk =>
                                  /\ dReturned[j].title = ""
                                  /\ dReturned[j].directory = ""

\* Two instances: the status request of one fails although a session is
\* busy there, the session-list request of the other fails.
C18_Witness ==
    /\ dAgent = "opencode"
    /\ Len(dReturned) = 2
    /\ LET instances == findOpenCodeInstances(dEnv.entries)
       IN  /\ Len(instances) = 2
           /\ ~dEnv.http[instances[1].port].statusOk
           /\ dEnv.http[instances[1].port].statusMap # {}
           /\ dEnv.http[instances[2].port].statusOk
           /\ dEnv.http[instances[2].port].statusMap # {}
           /\ ~dEnv.http[instances[2].port].listOk
           /\ dEnv.http[instances[2].port].list # <<>>
    /\ \E j \in 1..2 : dReturned[j].status = StatusBusy

(***************************************************************************)
(* Codex: attribution by the open rollout file                             *)
(***************************************************************************)
\* The open files of the probed process whose path matches the rollout
\* naming pattern, as positions in ListOpenFiles' result.
CodexRolloutFiles == { i \in 1..Len(codexIn.files) : codexIn.files[i].match }

\* C19: a Codex process with no open file matching the rollout pattern
\* yields no record; one with such a file yields a record whose session id
\* is the UUID of that file's name (of the first such file listed).
C19_CodexAttribution ==
    codexIn # NoProbe =>
        /\ CodexRolloutFiles = {} => codexOut = NilSession
        /\ CodexRolloutFiles # {} =>
              LET first == CHOOSE i \in CodexRolloutFiles :
                               \A j \in CodexRolloutFiles : i <= j
              IN  /\ codexOut # NilSession
                  /\ codexOut.agent = "codex"
                  /\ codexOut.pid = codexIn.pid
                  /\ codexOut.sessionID = codexIn.files[first].thread

\* A process whose second open file is the rollout file, the first one not.
C19_Witness ==
    /\ codexIn # NoProbe
    /\ codexIn.files = << OpenFile(FALSE, ""), OpenFile(TRUE, "uuid-2") >>
    /\ codexOut # NilSession
    /\ codexOut.sessionID = "uuid-2"

FirstArgumentMatches(argv) == MatchString(ArgumentString(argv[1]))

AnyArgumentMatches(argv) ==
    \E i \in 1..Len(argv) : MatchString(ArgumentString(argv[i]))

C21_LaunchPathMatching ==
    /\ findCall.fn = "FindPIDsByName" =>
          findCall.pids = {pid \in FindRunning(findCall.procs) :
                              FirstArgumentMatches(findCall.procs[pid])}
    /\ findCall.fn = "FindPIDsByArgs" =>
          \A pid \in FindRunning(findCall.procs) :
             AnyArgumentMatches(findCall.procs[pid]) => pid \in findCall.pids

(***************************************************************************)
(* C22  In ConcurrentProbe the result slice is modified only by the        *)
(* goroutine that holds mu: no two goroutines are between mu.Lock() and    *)
(* mu.Unlock() at once, a step that changes results is the append of the   *)
(* holder, and a goroutine's step changes nothing another goroutine owns   *)
(* (its session, its copy of the slice header, its position).              *)
(***************************************************************************)
InCriticalSection(it) == cpTask[it] \in {"read", "write", "unlock"}

ProbeMutualExclusion ==
    \A a, b \in ProbeItems :
        InCriticalSection(a) /\ InCriticalSection(b) => a = b /\ cpMu = a

ProbeStepsAreLocal ==
    /\ cpResults' # cpResults =>
          /\ cpMu \in ProbeItems
          /\ cpTask[cpMu] = "write"
          /\ cpTask'[cpMu] = "unlock"
          /\ cpResults' = Append(cpResults, cpSession[cpMu])
    /\ \A a, b \in ProbeItems :
          (a # b /\ cpTask'[a] # cpTask[a]) =>
             /\ cpTask'[b] = cpTask[b]
             /\ cpSession'[b] = cpSession[b]
             /\ cpTmp'[b] = cpTmp[b]
    /\ \A a \in ProbeItems :
          cpTask'[a] = cpTask[a] =>
             cpSession'[a] = cpSession[a] /\ cpTmp'[a] = cpTmp[a]

C22_AppendOnlyUnderMutex == [](ProbeMutualExclusion) /\ [][ProbeStepsAreLocal]_vars

\* one goroutine is in the append while another waits for the mutex
C22_Witness ==
    \E a, b \in ProbeItems :
        /\ cpTask[a] = "write"
        /\ cpTask[b] = "lock"
        /\ Len(cpResults) >= 1

(***************************************************************************)
(* C23  Amp thread matching.  A thread file matches a working directory    *)
(* iff one of its workspace roots is the directory or a path ancestor of   *)
(* it; matchThreadByCwd returns a matching file of the latest modification *)
(* time among the matching ones, and nothing when none matches.  Read off  *)
(* the records of DiscoverAmp: a matched record carries the thread's id,   *)
(* an unmatched one has no session id.                                     *)
(***************************************************************************)
IsPathAncestor(root, dir) ==
    /\ PathComps(root) # <<>>
    /\ Len(PathComps(root)) < Len(PathComps(dir))
    /\ \A i \in 1..Len(PathComps(root)) : PathComps(root)[i] = PathComps(dir)[i]

WorkspaceRoots(th) ==
    {uriToPath(th.trees[i].uri) : i \in 1..Len(th.trees)} \ {""}

ThreadMatchesDir(th, dir) ==
    \E root \in WorkspaceRoots(th) : root = dir \/ IsPathAncestor(root, dir)

MatchingThreads(dir) ==
    {i \in 1..Len(dEnv.threads) : ThreadMatchesDir(dEnv.threads[i], dir)}

C23_AmpThreadMatching ==
    (dAgent = "amp" /\ dEnv.threads # <<>>) =>
        \A j \in 1..Len(dReturned) :
            LET r == dReturned[j]
                matching == MatchingThreads(r.directory)
            IN  /\ r.sessionID = "" <=> matching = {}
                /\ r.sessionID # "" =>
                      \E i \in matching :
                          /\ dEnv.threads[i].id = r.sessionID
                          /\ \A k \in matching :
                                dEnv.threads[k].modTime <= dEnv.threads[i].modTime

\* two thread files match the directory, the one listed second is newer
\* and is the one reported
C23_Witness ==
    /\ dAgent = "amp"
    /\ Len(dEnv.threads) = 2
    /\ dEnv.threads[1].modTime < dEnv.threads[2].modTime
    /\ \E j \in 1..Len(dReturned) :
          /\ MatchingThreads(dReturned[j].directory) = {1, 2}
          /\ dReturned[j].sessionID = dEnv.threads[2].id
          /\ dReturned[j].directory = "/b/a"

(***************************************************************************)
(* C24  Gemini status inference.  The status geminiStatusFromSession       *)
(* returns depends only on the type of the session's last message: busy    *)
(* for user, idle for any other type, and idle for a session without       *)
(* messages.                                                               *)
(***************************************************************************)
C24_GeminiLastMessageRule ==
    gsOut # "none" =>
        /\ gsMessages = <<>> => gsOut = StatusIdle
        /\ gsMessages # <<>> =>
              LET last == gsMessages[Len(gsMessages)]
              IN  /\ last = "user" => gsOut = StatusBusy
                  /\ last # "user" => gsOut = StatusIdle

\* a user message answered: idle though an earlier message is the user's
C24_Witness ==
    /\ gsOut = StatusIdle
    /\ Len(gsMessages) >= 2
    /\ gsMessages[1] = "user"
    /\ gsMessages[Len(gsMessages)] = "error"

(***************************************************************************)
(* C25  Claude title and directory.  The title of a Claude record is the   *)
(* slug of the last entry of the scanned window that has one, "-" when no  *)
(* entry has one; its directory is the cwd of the last entry that has one, *)
(* and the process's live working directory when no entry has one.  An     *)
(* entry without the field changes nothing.                                *)
(***************************************************************************)
\* the lines readClaudeStatus scans: those after the seek point, none when
\* the file cannot be read
ClaudeScannedWindow(tr) ==
    IF ~tr.ioOk \/ (tr.cut > 0 /\ tr.cut = Len(tr.lines) /\ ~tr.finalNewline)
    THEN <<>>
    ELSE SubSeq(tr.lines, tr.cut + 1, Len(tr.lines))

EntriesWithSlug(w) == {i \in 1..Len(w) : w[i].kind = "json" /\ w[i].slug # ""}

EntriesWithCwd(w) == {i \in 1..Len(w) : w[i].kind = "json" /\ w[i].cwd # ""}

MaxOf(S) == CHOOSE i \in S : \A j \in S : j <= i

C25_ClaudeTitleAndDirectory ==
    dAgent = "claude" =>
        \A j \in 1..Len(dReturned) :
            LET r == dReturned[j]
                w == ClaudeScannedWindow(dEnv.transcripts[r.sessionID])
            IN  /\ r.title = IF EntriesWithSlug(w) = {} THEN "-"
                             ELSE w[MaxOf(EntriesWithSlug(w))].slug
                /\ r.directory = IF EntriesWithCwd(w) = {} THEN dEnv.cwd[r.pid]
                                 ELSE w[MaxOf(EntriesWithCwd(w))].cwd

\* a later slug replaced an earlier one, and the last entry, which has no
\* slug, did not erase it
C25_Witness ==
    /\ dAgent = "claude"
    /\ \E j \in 1..Len(dReturned) :
          LET w == ClaudeScannedWindow(dEnv.transcripts[dReturned[j].sessionID])
          IN  /\ Len(w) = 3
              /\ w[1].slug = "fix-bug"
              /\ w[3].slug = ""
              /\ dReturned[j].title = "add-test"
              /\ dReturned[j].directory = "/v"

(***************************************************************************)
(* C26  OpenCode, non-empty status map.  Each process with a listening     *)
(* opencode socket has one record, however many ports it listens on; the   *)
(* responses are those of the port of its first socket.  When the status   *)
(* map has entries, status and session id are those of one and the same    *)
(* entry, and title and directory are those of the session-list entry      *)
(* with that id, unset when the list has no such entry or was not fetched. *)
(***************************************************************************)
OpenCodeSocketsOf(p) ==
    {i \in 1..Len(dEnv.entries) :
        dEnv.entries[i].pid = p /\ IsOpenCodeCmd(dEnv.entries[i].cmd)}

OpenCodePids == {p \in AgentPids : OpenCodeSocketsOf(p) # {}}

FirstSocketOf(p) ==
    dEnv.entries[CHOOSE i \in OpenCodeSocketsOf(p) : \A k \in OpenCodeSocketsOf(p) : i <= k]

ListEntriesWithId(list, id) == {k \in 1..Len(list) : list[k].id = id}

C26_OpenCodeEntryAndEnrichment ==
    dAgent = "opencode" =>
        /\ \A j \in 1..Len(dReturned) : dReturned[j].pid \in OpenCodePids
        /\ \A p \in OpenCodePids :
              /\ Cardinality(OpenCodeRecordsOf(p)) = 1
              /\ LET resp == dEnv.http[FirstSocketOf(p).port]
                 IN  (resp.statusOk /\ resp.statusMap # {}) =>
                        \A j \in OpenCodeRecordsOf(p) :
                           \E e \in resp.statusMap :
                              LET ks == ListEntriesWithId(resp.list, e.id)
                                  r == dReturned[j]
                              IN  /\ r.status = e.type
                                  /\ r.sessionID = e.id
                                  /\ (resp.listOk /\ ks # {}) =>
                                        \E k \in ks :
                                           /\ r.title = resp.list[k].title
                                           /\ r.directory = resp.list[k].directory
                                  /\ (~resp.listOk \/ ks = {}) =>
                                        r.title = "" /\ r.directory = ""

\* one process listening on two ports, whose status map has two entries:
\* one record, with the id of one entry and the title the session list
\* holds for that id, which is not the list's first entry
C26_Witness ==
    /\ dAgent = "opencode"
    /\ Len(dReturned) = 1
    /\ \E p \in OpenCodePids :
          /\ Cardinality(OpenCodeSocketsOf(p)) = 2
          /\ Cardinality(dEnv.http[FirstSocketOf(p).port].statusMap) = 2
          /\ dReturned[1].pid = p
          /\ dReturned[1].sessionID = "ses_1"
          /\ dReturned[1].status = StatusRetry
          /\ Len(dEnv.http[FirstSocketOf(p).port].list) = 2
          /\ dReturned[1].title = ""

(***************************************************************************)
(* C27  The PID-to-session map of buildPIDSessionMap, before the loop and  *)
(* after each debug log scanned: its keys are candidate PIDs, a log adds   *)
(* at most one binding, under its own session id, and changes no earlier   *)
(* binding, and no two PIDs are bound to the same session id.              *)
(***************************************************************************)
BoundPids(m) == {p \in DOMAIN m : m[p] # ""}

PidMapWellFormed(m) ==
    /\ BoundPids(m) \subseteq SeqToSet(dEnv.pids)
    /\ \A p, q \in BoundPids(m) : p # q => m[p] # m[q]

LogBindsAtMostOne(before, after) ==
    /\ \A p \in BoundPids(before) : after[p] = before[p]
    /\ Cardinality(BoundPids(after) \ BoundPids(before)) <= 1
    /\ \A p \in BoundPids(after) \ BoundPids(before) :
          \E i \in 1..Len(dEnv.logs) :
             /\ dEnv.logs[i].session = after[p]
             /\ \E k \in 1..Len(dEnv.logs[i].lines) : dEnv.logs[i].lines[k] = p

C27_PidMapInjective ==
    dAgent = "claude" =>
        \A n \in 1..Len(dPidMaps) :
            /\ PidMapWellFormed(dPidMaps[n])
            /\ n > 1 => LogBindsAtMostOne(dPidMaps[n - 1], dPidMaps[n])

\* two logs scanned, the first referring to both candidates: each log
\* bound one of them
C27_Witness ==
    /\ dAgent = "claude"
    /\ Len(dPidMaps) = 3
    /\ dPidMaps[1] = [p \in {1, 2} |-> ""]
    /\ BoundPids(dPidMaps[2]) = {2}
    /\ BoundPids(dPidMaps[3]) = {1, 2}
    /\ \E i \in 1..Len(dEnv.logs) :
          dEnv.logs[i].lines = <<2, 1>> /\ dEnv.logs[i].session = dPidMaps[3][2]

(***************************************************************************)
(* C28  Within one DiscoverGemini run no session file is paired with more  *)
(* than one PID: the records of different PIDs that have a session id      *)
(* have different session ids, across all working-directory groups.        *)
(***************************************************************************)
C28_GeminiSessionPairedOnce ==
    gDone =>
        \A i, j \in 1..Len(gResults) :
            (gResults[i].pid # gResults[j].pid /\ gResults[i].sessionID # "")
                => gResults[i].sessionID # gResults[j].sessionID

(***************************************************************************)
(* C29  Claude tail-window scanning.  For a transcript larger than the     *)
(* trailing window, the status readClaudeStatus returns (seek, discard the *)
(* first line, scan the rest) is the status the ordering rule gives for    *)
(* all lines of the file.                                                  *)
(***************************************************************************)
WholeFileStatus ==
    LET td == LastIndex(transcript, IsTurnDuration)
        as == LastIndex(transcript, IsAssistant)
    IN  IF as > td THEN StatusBusy ELSE StatusIdle

C29_TailWindowEquivalence ==
    (ClaudeScanRan /\ tailCut > 0) => claudeOut.status = WholeFileStatus

(***************************************************************************)
(* C30  Claude status under transcript growth, for a transcript scanned    *)
(* whole.  After a system/turn_duration entry is appended the status is    *)
(* idle, after an assistant entry it is busy, whatever came before; after  *)
(* a blank line, an unparsable line or any other entry it is what it was   *)
(* before the line was appended.                                           *)
(***************************************************************************)
LatestLine == cgTranscript[Len(cgTranscript)]

====
